---- MODULE Spec2Model ----
(***************************************************************************)
(* State-machine model of the funding-opportunity monitor (src/app.py):    *)
(* the URL sanitizer, the quality filter, the three extraction strategies, *)
(* the per-source strategy chain and the identity gate of the store.       *)
(*                                                                         *)
(* Python strings are modelled as sequences of one-character strings, so   *)
(* that substring tests, stripping and the regular expressions of the      *)
(* source are computed on the characters and not assumed.                  *)
(***************************************************************************)
EXTENDS Integers, Sequences, FiniteSets, TLC

VARIABLES
    status,             \* STATE_CONFIGS[code]['status'] of every source
    perplexity_client,  \* TRUE iff the module-level Perplexity client exists
    firecrawl_app,      \* TRUE iff the module-level Firecrawl client exists
    seed,               \* string-hash salt of the running Python process
    now,                \* wall clock, datetime.now()
    web,                \* upstream content of every source (environment)
    store,              \* rows of the opportunities table
    handler,            \* the handler that ran last
    result,             \* the batch that handler returned
    trace,              \* the strategy functions it called, with their results
    prevStore,          \* history: the store when that handler started
    fresh,              \* history: upstream and date bucket unchanged since the last run
    repeat,             \* history: value of fresh when the last run started
    alerted,            \* the batch handed to send_alerts by the last run
    runs,               \* number of store-writing handler runs so far
    fn,      \* pure-function harness: the function applied ("none" in Spec)
    arg,     \* pure-function harness: its argument(s)
    ret,     \* pure-function harness: its result ("pending" before the call)
    pc,      \* threads: where each thread stands in check_all_states
    loc,     \* threads: the local variables of each thread's run
    lock     \* threads: the connection holding the write lock of the database

mvars == <<status, perplexity_client, firecrawl_app, seed, now, web, store,
           handler, result, trace, prevStore, fresh, repeat, alerted, runs>>
hvars == <<fn, arg, ret>>
rvars == <<pc, loc, lock>>
vars == <<mvars, hvars, rvars>>

NONE == <<"None">>      \* Python None / a missing dict key

-----------------------------------------------------------------------------
(* Characters and Python string primitives                                 *)

Whitespace == {" ", "\t", "\n"}
Digits == {"0", "1", "2", "3", "4", "5", "6", "7", "8", "9"}
LowerLetters ==
    {"a", "b", "c", "d", "e", "f", "g", "h", "i", "j", "k", "l", "m",
     "n", "o", "p", "q", "r", "s", "t", "u", "v", "w", "x", "y", "z"}
UpperLetters ==
    {"A", "B", "C", "D", "E", "F", "G", "H", "I", "J", "K", "L", "M",
     "N", "O", "P", "Q", "R", "S", "T", "U", "V", "W", "X", "Y", "Z"}
Letters == LowerLetters \cup UpperLetters

LowerOf ==
    [c \in UpperLetters |->
        CASE c = "A" -> "a" [] c = "B" -> "b" [] c = "C" -> "c" [] c = "D" -> "d"
          [] c = "E" -> "e" [] c = "F" -> "f" [] c = "G" -> "g" [] c = "H" -> "h"
          [] c = "I" -> "i" [] c = "J" -> "j" [] c = "K" -> "k" [] c = "L" -> "l"
          [] c = "M" -> "m" [] c = "N" -> "n" [] c = "O" -> "o" [] c = "P" -> "p"
          [] c = "Q" -> "q" [] c = "R" -> "r" [] c = "S" -> "s" [] c = "T" -> "t"
          [] c = "U" -> "u" [] c = "V" -> "v" [] c = "W" -> "w" [] c = "X" -> "x"
          [] c = "Y" -> "y" [] OTHER -> "z"]

\* str.lower()
Lower(s) == [i \in 1..Len(s) |-> IF s[i] \in UpperLetters THEN LowerOf[s[i]] ELSE s[i]]

\* t in s  (substring test)
Contains(s, t) == \E i \in 0..(Len(s) - Len(t)) : SubSeq(s, i + 1, i + Len(t)) = t

\* s.startswith(t)
StartsWith(s, t) == Len(s) >= Len(t) /\ SubSeq(s, 1, Len(t)) = t

\* s.strip()
strip(s) ==
    LET nonws == {i \in 1..Len(s) : s[i] \notin Whitespace}
    IN  IF nonws = {} THEN <<>>
        ELSE SubSeq(s, CHOOSE i \in nonws : \A j \in nonws : i <= j,
                       CHOOSE i \in nonws : \A j \in nonws : j <= i)

\* The position just after which the regex anchor $ matches when the match
\* cannot contain a newline: the end of the string, or just before a final "\n".
DollarPos(s) == IF Len(s) > 0 /\ s[Len(s)] = "\n" THEN Len(s) - 1 ELSE Len(s)

-----------------------------------------------------------------------------
(* URL Sanitizer: clean_extracted_url                                      *)

ClosingPunct == {")", "]", "}", ".", ",", ":", ";", "!", "?"}

\* re.sub(r'\[\d+\]\.?$', '', url)
StripFootnote(s) ==
    LET k == DollarPos(s)
        e == IF k >= 1 /\ s[k] = "." THEN k - 1 ELSE k    \* position of "]"
        starts == {i \in 1..(e - 2) :
                     /\ s[i] = "["
                     /\ \A j \in (i + 1)..(e - 1) : s[j] \in Digits}
    IN  IF e >= 3 /\ s[e] = "]" /\ starts # {}
        THEN LET i == CHOOSE x \in starts : \A y \in starts : x <= y
             IN  SubSeq(s, 1, i - 1) \o SubSeq(s, k + 1, Len(s))
        ELSE s

\* re.sub(r'[\)\]\}\.,:;!?]+$', '', url)
StripClosing(s) ==
    LET k == DollarPos(s)
        starts == {i \in 1..k : \A j \in i..k : s[j] \in ClosingPunct}
    IN  IF starts # {}
        THEN LET i == CHOOSE x \in starts : \A y \in starts : x <= y
             IN  SubSeq(s, 1, i - 1) \o SubSeq(s, k + 1, Len(s))
        ELSE s

\* re.match(r'https?://[^\s<>"]+\.[a-zA-Z]{2,}', url)
UrlExcluded == Whitespace \cup {"<", ">", "\""}

\* Fault: the validation keeps the scheme test and drops the domain/TLD test.
MatchesSchemeOnly(s) ==
    \E h \in {<<"h", "t", "t", "p", ":", "/", "/">>,
              <<"h", "t", "t", "p", "s", ":", "/", "/">>} : StartsWith(s, h)

MatchesDomainTld(s) ==
    \E h \in {<<"h", "t", "t", "p", ":", "/", "/">>,
              <<"h", "t", "t", "p", "s", ":", "/", "/">>} :
        /\ StartsWith(s, h)
        /\ \E p \in (Len(h) + 2)..(Len(s) - 2) :
              /\ \A j \in (Len(h) + 1)..(p - 1) : s[j] \notin UrlExcluded
              /\ s[p] = "."
              /\ s[p + 1] \in Letters
              /\ s[p + 2] \in Letters

MinUrlLen == 10

clean_extracted_url(url) ==
    IF url = NONE \/ url = <<>> THEN <<>>
    ELSE LET u1 == strip(url)
             u2 == StripFootnote(u1)
             u3 == StripClosing(u2)
             u4 == strip(u3)
         IN  IF /\ u4 # <<>>
                /\ StartsWith(u4, <<"h", "t", "t", "p">>)
                /\ Len(u4) > MinUrlLen
                /\ MatchesDomainTld(u4)
             THEN u4
             ELSE <<>>

-----------------------------------------------------------------------------
(* Quality Filter: is_high_quality_opportunity                             *)

red_flag_terms ==
    { <<"b", "u", "d", "g", "e", "t">>,
      <<"s", "u", "m", "m", "a", "r", "y">>,
      <<"l", "e", "g", "i", "s", "l", "a", "t", "i", "v", "e">>,
      <<"a", "r", "c", "h", "i", "v", "e">>,
      <<"r", "e", "p", "o", "r", "t">>,
      <<"o", "v", "e", "r", "v", "i", "e", "w">>,
      <<"a", "n", "a", "l", "y", "s", "i", "s">>,
      <<"a", "p", "p", "r", "o", "p", "r", "i", "a", "t", "i", "o", "n">>,
      <<"b", "i", "l", "l">>,
      <<"l", "e", "g", "i", "s", "l", "a", "t", "i", "o", "n">>,
      <<"h", "e", "a", "r", "i", "n", "g">>,
      <<"c", "o", "m", "m", "i", "t", "t", "e", "e">>,
      <<"m", "i", "n", "u", "t", "e", "s">>,
      <<"a", "g", "e", "n", "d", "a">>,
      <<"p", "r", "e", "s", "e", "n", "t", "a", "t", "i", "o", "n">>,
      <<"s", "l", "i", "d", "e", "s">> }

url_red_flags ==
    { <<".", "p", "d", "f">>,
      <<"/", "a", "r", "c", "h", "i", "v", "e">>,
      <<"/", "b", "u", "d", "g", "e", "t">>,
      <<"/", "l", "e", "g", "i", "s", "l", "a", "t", "i", "v", "e">>,
      <<"/", "s", "u", "m", "m", "a", "r", "y">>,
      <<"/", "r", "e", "p", "o", "r", "t", "s">>,
      <<"/", "p", "r", "e", "s", "e", "n", "t", "a", "t", "i", "o", "n", "s">>,
      <<"/", "m", "i", "n", "u", "t", "e", "s">>,
      <<"/", "h", "e", "a", "r", "i", "n", "g">> }

actionable_terms ==
    { <<"a", "p", "p", "l", "i", "c", "a", "t", "i", "o", "n">>,
      <<"a", "p", "p", "l", "y">>,
      <<"g", "r", "a", "n", "t">>,
      <<"r", "f", "p">>,
      <<"r", "e", "q", "u", "e", "s", "t", " ", "f", "o", "r", " ", "p", "r", "o", "p", "o", "s", "a", "l">>,
      <<"f", "u", "n", "d", "i", "n", "g", " ", "o", "p", "p", "o", "r", "t", "u", "n", "i", "t", "y">>,
      <<"c", "o", "m", "p", "e", "t", "i", "t", "i", "v", "e">>,
      <<"s", "o", "l", "i", "c", "i", "t", "a", "t", "i", "o", "n">>,
      <<"a", "w", "a", "r", "d">> }

vague_values ==
    { <<"t", "b", "d">>,
      <<"t", "o", " ", "b", "e", " ", "d", "e", "t", "e", "r", "m", "i", "n", "e", "d">>,
      <<"v", "a", "r", "i", "e", "s">> }

\* amount and amount.lower() not in ['tbd', 'to be determined', 'varies']
IsSpecific(v) == v # NONE /\ v # <<>> /\ Lower(v) \notin vague_values

\* Fault: the soft signal (no concrete amount and no concrete deadline) is
\* treated as a rejection instead of a log line.
RejectsVagueOpportunity(title, url, amount, deadline) ==
    /\ ~\E term \in red_flag_terms : Contains(Lower(title), term)
    /\ ~\E flag \in url_red_flags : Contains(Lower(url), flag)
    /\ \E term \in actionable_terms : Contains(Lower(title) \o <<" ">> \o Lower(url), term)
    /\ IsSpecific(amount) \/ IsSpecific(deadline)

is_high_quality_opportunity(title, url, amount, deadline) ==
    LET title_lower == Lower(title)
        url_lower == Lower(url)
        combined_text == title_lower \o <<" ">> \o url_lower
        has_actionable == \E term \in actionable_terms : Contains(combined_text, term)
        has_amount == IsSpecific(amount)
        has_deadline == IsSpecific(deadline)
    IN  IF \E term \in red_flag_terms : Contains(title_lower, term) THEN FALSE
        ELSE IF \E flag \in url_red_flags : Contains(url_lower, flag) THEN FALSE
        ELSE IF ~has_actionable THEN FALSE
        ELSE IF ~has_amount /\ ~has_deadline
             THEN TRUE      \* only a warning is logged
             ELSE TRUE

-----------------------------------------------------------------------------
(* Amount Normalizer: extract_dollar_amount                                *)

DigitVal ==
    [c \in Digits |->
        CASE c = "0" -> 0 [] c = "1" -> 1 [] c = "2" -> 2 [] c = "3" -> 3
          [] c = "4" -> 4 [] c = "5" -> 5 [] c = "6" -> 6 [] c = "7" -> 7
          [] c = "8" -> 8 [] OTHER -> 9]
DigitChar == <<"0", "1", "2", "3", "4", "5", "6", "7", "8", "9">>

RECURSIVE DigitsToNat(_)
DigitsToNat(s) ==
    IF s = <<>> THEN 0
    ELSE 10 * DigitsToNat(SubSeq(s, 1, Len(s) - 1)) + DigitVal[s[Len(s)]]

RECURSIVE Pow10(_)
Pow10(n) == IF n = 0 THEN 1 ELSE 10 * Pow10(n - 1)

RECURSIVE NatToChars(_)
NatToChars(n) ==
    IF n < 10 THEN <<DigitChar[n + 1]>>
    ELSE NatToChars(n \div 10) \o <<DigitChar[(n % 10) + 1]>>

RECURSIVE Grouped(_)
\* thousands separators of the format specification ","
Grouped(ds) ==
    IF Len(ds) <= 3 THEN ds
    ELSE Grouped(SubSeq(ds, 1, Len(ds) - 3)) \o <<",">> \o SubSeq(ds, Len(ds) - 2, Len(ds))

AmountChars == Digits \cup {"."}

multipliers == [k |-> 1000, m |-> 1000000, b |-> 1000000000]

\* The result is [kind |-> "none"] (None), [kind |-> "error"] (float() raised
\* ValueError) or [kind |-> "num", num, den] for the float num / den.
extract_dollar_amount(text) ==
    IF text = NONE \/ text = <<>> THEN [kind |-> "none"]
    ELSE
    LET tx == SelectSeq(text, LAMBDA c : c # ",")
        starts == {i \in 1..Len(tx) :
                     \/ tx[i] \in AmountChars
                     \/ tx[i] = "$" /\ i < Len(tx) /\ tx[i + 1] \in AmountChars}
    IN  IF starts = {} THEN [kind |-> "none"]
        ELSE
        LET i0 == CHOOSE i \in starts : \A j \in starts : i <= j
            b == IF tx[i0] = "$" THEN i0 + 1 ELSE i0
            e == CHOOSE j \in b..Len(tx) :
                    /\ \A x \in b..j : tx[x] \in AmountChars
                    /\ j = Len(tx) \/ tx[j + 1] \notin AmountChars
            grp == SubSeq(tx, b, e)
            rest == {x \in (e + 1)..Len(tx) : tx[x] \notin Whitespace}
            w == IF rest = {} THEN 0 ELSE CHOOSE x \in rest : \A y \in rest : x <= y
            suffix == IF w = 0 THEN "" ELSE Lower(<<tx[w]>>)[1]
            mult == IF suffix \in {"k", "m", "b"} THEN multipliers[suffix] ELSE 1
            dots == {x \in 1..Len(grp) : grp[x] = "."}
            digs == SelectSeq(grp, LAMBDA c : c \in Digits)
        IN  IF Cardinality(dots) > 1 \/ digs = <<>> THEN [kind |-> "error"]
            ELSE LET frac == IF dots = {} THEN 0
                             ELSE Len(grp) - (CHOOSE x \in dots : TRUE)
                 IN  [kind |-> "num", num |-> DigitsToNat(digs) * mult, den |-> Pow10(frac)]

\* f"${amount:,.0f}": round half to even, thousands separators
FormatDollars(a) ==
    LET q == a.num \div a.den
        r == a.num % a.den
        n == IF 2 * r > a.den \/ (2 * r = a.den /\ q % 2 = 1) THEN q + 1 ELSE q
    IN  <<"$">> \o Grouped(NatToChars(n))

-----------------------------------------------------------------------------
(* Source profiles: STATE_CONFIGS                                          *)

Sources == {"TX", "NSF_DRK12"}
SourceOrder == <<"TX", "NSF_DRK12">>     \* iteration order of the dict

STATE_CONFIGS ==
    [TX |->
        [name |-> "Texas",
         url |-> <<"h", "t", "t", "p", "s", ":", "/", "/", "t", "e", "a", ".", "t", "e", "x", "a", "s", ".", "g", "o", "v", "/", "f", "i", "n", "a", "n", "c", "e", "-", "a", "n", "d", "-", "g", "r", "a", "n", "t", "s", "/", "g", "r", "a", "n", "t", "s">>,
         selectors |-> <<".field--name-body a", ".sectional-box a", "strong a",
                         ".field--type-text-with-summary a">>,
         source_type |-> "state"],
     NSF_DRK12 |->
        [name |-> "NSF Discovery Research PreK-12",
         url |-> <<"h", "t", "t", "p", "s", ":", "/", "/", "w", "w", "w", ".", "n", "s", "f", ".", "g", "o", "v", "/", "f", "u", "n", "d", "i", "n", "g", "/", "o", "p", "p", "o", "r", "t", "u", "n", "i", "t", "i", "e", "s", "/", "d", "r", "k", "-", "1", "2", "-", "d", "i", "s", "c", "o", "v", "e", "r", "y", "-", "r", "e", "s", "e", "a", "r", "c", "h", "-", "p", "r", "e", "k", "-", "1", "2">>,
         selectors |-> <<".content a", "main a", ".opportunity-details a">>,
         source_type |-> "federal"]]

\* Status values of a Source Profile, and the value scrape_opportunities tests
Statuses == {"active", "needs_verification", "blocked", "inactive", "captcha_protected"}

ABSENT == "absent"      \* a key the dict does not have

-----------------------------------------------------------------------------
(* requests.compat.urljoin, for the href shapes of the sampled pages       *)

SchemeSep == <<":", "/", "/">>

\* index of the first "/" after "scheme://host", or Len + 1
PathStart(u) ==
    LET a == CHOOSE i \in 1..Len(u) : SubSeq(u, i, i + 2) = SchemeSep
        sl == {i \in (a + 3)..Len(u) : u[i] = "/"}
    IN  IF sl = {} THEN Len(u) + 1 ELSE CHOOSE i \in sl : \A j \in sl : i <= j

\* index of the last "/" of the path
LastSlash(u) ==
    LET sl == {i \in PathStart(u)..Len(u) : u[i] = "/"}
    IN  IF sl = {} THEN Len(u) ELSE CHOOSE i \in sl : \A j \in sl : j <= i

HasScheme(href) ==
    \E i \in 2..Len(href) :
        /\ href[i] = ":"
        /\ \A j \in 1..(i - 1) : href[j] \in Letters

urljoin(base, href) ==
    IF href = <<>> THEN base
    ELSE IF HasScheme(href) THEN href
    ELSE IF href[1] = "#" THEN base \o href
    ELSE IF href[1] = "/" THEN SubSeq(base, 1, PathStart(base) - 1) \o href
    ELSE IF PathStart(base) > Len(base) THEN base \o <<"/">> \o href
    ELSE SubSeq(base, 1, LastSlash(base)) \o href

-----------------------------------------------------------------------------
(* Identity keys.  An id is the tuple of the parts of the f-string         *)
(* f"{state_code}_{tag}_{hash}_{date}".  hashlib.md5 depends on the text   *)
(* only; the builtin hash() of a str is salted per process (seed).         *)

TicksPerDay == 2
DateBucket(time) == time \div TicksPerDay       \* strftime('%Y%m%d')

md5_hexdigest8(text) == <<"md5", 0, text>>
hash(title, salt) == <<"hash", salt, title>>

StructuralId(state_code, text, time) ==
    <<state_code, "", md5_hexdigest8(text), DateBucket(time)>>
FirecrawlId(state_code, title, salt, time) ==
    <<state_code, "firecrawl", hash(title, salt), DateBucket(time)>>
PerplexityId(state_code, title, salt, time) ==
    <<state_code, "perplexity", hash(title, salt), DateBucket(time)>>

-----------------------------------------------------------------------------
(* Candidate opportunities: the dict built by the extractors.  A key the   *)
(* dict lacks is ABSENT (NoScore for the numeric quality_score).           *)

NoScore == -1

Opportunity(id, title, state, amount, deadline, url, tags, found_date, source, source_type) ==
    [id |-> id, title |-> title, state |-> state, amount |-> amount,
     deadline |-> deadline, url |-> url, tags |-> tags, found_date |-> found_date,
     source |-> source, source_type |-> source_type,
     eligibility |-> ABSENT, description |-> ABSENT, contact_info |-> ABSENT,
     application_process |-> ABSENT, source_reliability |-> ABSENT,
     quality_score |-> NoScore]

RECURSIVE Ids(_)
Ids(opps) == IF opps = <<>> THEN <<>> ELSE <<Head(opps).id>> \o Ids(Tail(opps))

\* one entry of the call history: function, source, ids of the returned batch
Call(f, state_code, opps) == [fn |-> f, src |-> state_code, out |-> Ids(opps)]

AnyIn(text, words) == \E w \in words : Contains(text, w)

-----------------------------------------------------------------------------
(* Structural Extractor: scrape_opportunities                              *)
(* A fetched page is [kind |-> "error"] (request exception, non-200 status *)
(* or bot protection: all return the empty list) or [kind |-> "page",      *)
(* sel |-> the links soup.select returns for each selector, raises |-> the *)
(* selectors on which soup.select raises].                                 *)

skip_terms ==
    { <<"i", "n", "s", "t", "a", "g", "r", "a", "m">>,
      <<"f", "a", "c", "e", "b", "o", "o", "k">>,
      <<"t", "w", "i", "t", "t", "e", "r">>,
      <<"y", "o", "u", "t", "u", "b", "e">>,
      <<"l", "i", "n", "k", "e", "d", "i", "n">>,
      <<"c", "o", "n", "t", "a", "c", "t", " ", "u", "s">>,
      <<"p", "r", "i", "v", "a", "c", "y", " ", "p", "o", "l", "i", "c", "y">>,
      <<"t", "e", "r", "m", "s", " ", "o", "f", " ", "u", "s", "e">> }
funding_keywords ==
    { <<"g", "r", "a", "n", "t">>,
      <<"g", "r", "a", "n", "t", "s">>,
      <<"f", "u", "n", "d", "i", "n", "g">>,
      <<"a", "w", "a", "r", "d">>,
      <<"a", "w", "a", "r", "d", "s">>,
      <<"r", "f", "p">>,
      <<"s", "o", "l", "i", "c", "i", "t", "a", "t", "i", "o", "n">>,
      <<"a", "p", "p", "l", "i", "c", "a", "t", "i", "o", "n", " ", "d", "e", "a", "d", "l", "i", "n", "e">>,
      <<"c", "o", "m", "p", "e", "t", "i", "t", "i", "v", "e", " ", "g", "r", "a", "n", "t">>,
      <<"f", "u", "n", "d", "i", "n", "g", " ", "o", "p", "p", "o", "r", "t", "u", "n", "i", "t", "y">>,
      <<"g", "r", "a", "n", "t", " ", "o", "p", "p", "o", "r", "t", "u", "n", "i", "t", "y">>,
      <<"r", "e", "q", "u", "e", "s", "t", " ", "f", "o", "r", " ", "p", "r", "o", "p", "o", "s", "a", "l">> }
education_keywords ==
    { <<"k", "-", "1", "2">>,
      <<"e", "l", "e", "m", "e", "n", "t", "a", "r", "y">>,
      <<"m", "i", "d", "d", "l", "e", " ", "s", "c", "h", "o", "o", "l">>,
      <<"h", "i", "g", "h", " ", "s", "c", "h", "o", "o", "l">>,
      <<"e", "d", "u", "c", "a", "t", "i", "o", "n">>,
      <<"m", "a", "t", "h">>,
      <<"m", "a", "t", "h", "e", "m", "a", "t", "i", "c", "s">>,
      <<"s", "t", "e", "m">>,
      <<"s", "c", "i", "e", "n", "c", "e">>,
      <<"t", "e", "a", "c", "h", "e", "r">>,
      <<"s", "t", "u", "d", "e", "n", "t">>,
      <<"s", "c", "h", "o", "o", "l", " ", "d", "i", "s", "t", "r", "i", "c", "t">>,
      <<"p", "r", "o", "f", "e", "s", "s", "i", "o", "n", "a", "l", " ", "d", "e", "v", "e", "l", "o", "p", "m", "e", "n", "t">>,
      <<"c", "u", "r", "r", "i", "c", "u", "l", "u", "m">> }
k12_words ==
    { <<"k", "-", "1", "2">>,
      <<"e", "l", "e", "m", "e", "n", "t", "a", "r", "y">>,
      <<"m", "i", "d", "d", "l", "e">>,
      <<"s", "e", "c", "o", "n", "d", "a", "r", "y">>,
      <<"s", "c", "h", "o", "o", "l">> }
stem_words ==
    { <<"s", "t", "e", "m">>,
      <<"m", "a", "t", "h">>,
      <<"s", "c", "i", "e", "n", "c", "e">>,
      <<"t", "e", "c", "h", "n", "o", "l", "o", "g", "y">> }
pd_words ==
    { <<"t", "e", "a", "c", "h", "e", "r">>,
      <<"p", "r", "o", "f", "e", "s", "s", "i", "o", "n", "a", "l", " ", "d", "e", "v", "e", "l", "o", "p", "m", "e", "n", "t">>,
      <<"t", "r", "a", "i", "n", "i", "n", "g">> }

MaxRawLinks == 50
MaxCandidates == 20
MinLinkText == 5
MaxTitleLen == 200

AmountTBD == <<"A", "m", "o", "u", "n", "t", " ", "T", "B", "D">>
CheckWebsiteForDeadline == <<"C", "h", "e", "c", "k", " ", "w", "e", "b", "s", "i", "t", "e", " ", "f", "o", "r", " ", "d", "e", "a", "d", "l", "i", "n", "e">>

Prefix(s, n) == SubSeq(s, 1, IF Len(s) < n THEN Len(s) ELSE n)

RECURSIVE AllMatching(_, _)
\* a selector loop without the break: the matches of every selector that
\* does not raise, merged in the configured order
AllMatching(selectors, page) ==
    IF selectors = <<>> THEN <<>>
    ELSE LET sel == Head(selectors)
         IN  (IF sel \notin page.raises THEN page.sel[sel] ELSE <<>>)
                 \o AllMatching(Tail(selectors), page)

RECURSIVE FirstMatching(_, _)
\* the links of the first selector that finds any; a raising selector is skipped
FirstMatching(selectors, page) ==
    IF selectors = <<>> THEN <<>>
    ELSE LET sel == Head(selectors)
         IN  IF sel \notin page.raises /\ page.sel[sel] # <<>>
             THEN page.sel[sel]
             ELSE FirstMatching(Tail(selectors), page)

RECURSIVE UniqueByHref(_, _)
UniqueByHref(links, seen_hrefs) ==
    IF links = <<>> THEN <<>>
    ELSE LET link == Head(links)
         IN  IF link.href # <<>> /\ link.href \notin seen_hrefs
             THEN <<link>> \o UniqueByHref(Tail(links), seen_hrefs \cup {link.href})
             ELSE UniqueByHref(Tail(links), seen_hrefs)

IsGrantRelated(link) ==
    LET combined_text == Lower(link.text) \o <<" ">> \o Lower(link.href)
    IN  /\ link.text # <<>>
        /\ Len(link.text) >= MinLinkText
        /\ ~AnyIn(combined_text, skip_terms)
        /\ AnyIn(combined_text, funding_keywords)
        /\ AnyIn(combined_text, education_keywords)

StructuralTags(text) ==
    LET text_lower == Lower(text)
    IN  {"Education"}
        \cup (IF AnyIn(text_lower, k12_words) THEN {"K-12"} ELSE {})
        \cup (IF AnyIn(text_lower, stem_words) THEN {"STEM"} ELSE {})
        \cup (IF AnyIn(text_lower, pd_words) THEN {"Professional Development"} ELSE {})

RECURSIVE LinksToOpportunities(_, _, _, _)
\* the loop over grant_related_links[:20]; an exception (ValueError of the
\* amount normalizer) leaves the loop and the function returns what it has
LinksToOpportunities(links, state_code, time, opportunities) ==
    IF links = <<>> THEN opportunities
    ELSE
    LET link == Head(links)
        config == STATE_CONFIGS[state_code]
        href == IF link.href # <<>> /\ ~StartsWith(link.href, <<"h", "t", "t", "p">>)
                THEN urljoin(config.url, link.href)
                ELSE link.href
        found == extract_dollar_amount(link.text)
    IN  IF \/ href = <<>>
           \/ StartsWith(href, <<"#">>)
           \/ StartsWith(href, <<"j", "a", "v", "a", "s", "c", "r", "i", "p", "t", ":">>)
        THEN LinksToOpportunities(Tail(links), state_code, time, opportunities)
        ELSE IF found.kind = "error" THEN opportunities
        ELSE LinksToOpportunities(Tail(links), state_code, time,
                Append(opportunities,
                    Opportunity(StructuralId(state_code, link.text, time),
                                Prefix(link.text, MaxTitleLen),
                                config.name,
                                IF found.kind = "num" /\ found.num # 0
                                THEN FormatDollars(found) ELSE AmountTBD,
                                CheckWebsiteForDeadline,
                                href,
                                StructuralTags(link.text),
                                time, ABSENT, ABSENT)))

\* an extractor without the two slices: every deduplicated link is examined
\* and every grant-related link is processed
ScrapeUnbounded(state_code, st, page, time) ==
    IF state_code \notin Sources THEN <<>>
    ELSE IF st = "captcha_protected" THEN <<>>
    ELSE IF page.kind # "page" THEN <<>>
    ELSE LinksToOpportunities(
             SelectSeq(UniqueByHref(FirstMatching(STATE_CONFIGS[state_code].selectors, page), {}),
                       IsGrantRelated),
             state_code, time, <<>>)

scrape_opportunities(state_code, st, page, time) ==
    IF state_code \notin Sources THEN <<>>
    ELSE IF st = "captcha_protected" THEN <<>>
    ELSE IF page.kind # "page" THEN <<>>
    ELSE LET all_links == FirstMatching(STATE_CONFIGS[state_code].selectors, page)
             unique_links == UniqueByHref(all_links, {})
             grant_related_links == SelectSeq(Prefix(unique_links, MaxRawLinks), IsGrantRelated)
         IN  LinksToOpportunities(Prefix(grant_related_links, MaxCandidates),
                                  state_code, time, <<>>)

-----------------------------------------------------------------------------
(* Enrichment: enhance_opportunity_with_firecrawl                          *)
(* The detail page of a candidate is [kind |-> "error"] (scrape_url        *)
(* raised), [kind |-> "empty"] (no markdown) or [kind |-> "page", ...]     *)
(* with what the label-anchored patterns of every field match on it:       *)
(* deadlines and amounts are the matches in pattern order, the other       *)
(* fields the first match that passes the length test (ABSENT if none).    *)

CheckWebsite == <<"C", "h", "e", "c", "k", " ", "w", "e", "b", "s", "i", "t", "e">>

RECURSIVE FirstDeadline(_, _)
FirstDeadline(matches, current) ==
    IF matches = <<>> THEN current
    ELSE IF Head(matches) # <<>> /\ Head(matches) # CheckWebsite THEN Head(matches)
    ELSE FirstDeadline(Tail(matches), current)

RECURSIVE FirstAmount(_, _)
FirstAmount(matches, current) ==
    IF matches = <<>> THEN current
    ELSE IF <<"$">> \o Head(matches) # current THEN <<"$">> \o Head(matches)
    ELSE FirstAmount(Tail(matches), current)

\* quality scores are kept in tenths: 8.0 is 80, the boost 1.5 is 15
BaselineScore(source_type) ==
    IF source_type = "federal" THEN 80
    ELSE IF source_type = "state" THEN 70
    ELSE 60
BaselineReliability(source_type) ==
    IF source_type \in {"federal", "state"} THEN "high" ELSE "medium"
ScoreBoost == 15
MaxScore == 100

Min(a, b) == IF a < b THEN a ELSE b

\* Fault: the scores are set before the detail page is fetched.
ScoresBeforeFetch(opportunity, detail, fc) ==
    IF ~fc \/ opportunity.url = <<>> THEN opportunity
    ELSE [opportunity EXCEPT
            !.source_reliability = BaselineReliability(opportunity.source_type),
            !.quality_score = BaselineScore(opportunity.source_type)]

enhance_opportunity_with_firecrawl(opportunity, detail, fc) ==
    IF ~fc \/ opportunity.url = <<>> THEN opportunity
    ELSE IF detail.kind # "page" THEN opportunity
    ELSE
    LET eligibility == IF detail.eligibility # ABSENT THEN detail.eligibility
                       ELSE opportunity.eligibility
        description == IF detail.description # ABSENT THEN detail.description
                       ELSE opportunity.description
        base == BaselineScore(opportunity.source_type)
    IN  [opportunity EXCEPT
            !.deadline = FirstDeadline(detail.deadlines, @),
            !.amount = FirstAmount(detail.amounts, @),
            !.eligibility = eligibility,
            !.description = description,
            !.contact_info = IF detail.contact_info # ABSENT THEN detail.contact_info ELSE @,
            !.application_process =
                IF detail.application_process # ABSENT THEN detail.application_process ELSE @,
            !.tags = @ \cup (IF detail.math THEN {"Mathematics"} ELSE {})
                       \cup (IF detail.stem THEN {"STEM"} ELSE {}),
            !.source_reliability = BaselineReliability(opportunity.source_type),
            !.quality_score =
                IF eligibility # ABSENT /\ description # ABSENT
                THEN Min(MaxScore, base + ScoreBoost) ELSE base]

RECURSIVE EnhanceAll(_, _, _)
EnhanceAll(opps, detail, fc) ==
    IF opps = <<>> THEN <<>>
    ELSE <<enhance_opportunity_with_firecrawl(Head(opps), detail, fc)>>
         \o EnhanceAll(Tail(opps), detail, fc)

-----------------------------------------------------------------------------
(* Official-source crawl: firecrawl_crawl_source and                       *)
(* extract_opportunities_from_content.  The rendered markdown is           *)
(* [kind |-> "error"], [kind |-> "empty"] or [kind |-> "page", mentions]:  *)
(* the URLs the two url_patterns find, in the order list(found_urls)       *)
(* yields them, each with the title extract_title_near_url returns for it  *)
(* (NONE when it returns None).                                            *)

MaxOfficialUrls == 10
TBD == <<"T", "B", "D">>

RECURSIVE MentionsToOpportunities(_, _, _, _)
MentionsToOpportunities(mentions, state_code, salt, time) ==
    IF mentions = <<>> THEN <<>>
    ELSE
    LET m == Head(mentions)
        rest == MentionsToOpportunities(Tail(mentions), state_code, salt, time)
    IN  IF m.title = NONE THEN rest
        ELSE IF ~is_high_quality_opportunity(m.title, m.url, TBD, TBD) THEN rest
        ELSE <<Opportunity(FirecrawlId(state_code, m.title, salt, time),
                           m.title, STATE_CONFIGS[state_code].name, TBD, TBD, m.url,
                           {"K-12", "Education", "Official-Source"}, time,
                           "firecrawl", STATE_CONFIGS[state_code].source_type)>>
             \o rest

extract_opportunities_from_content(content, state_code, salt, time) ==
    MentionsToOpportunities(Prefix(content.mentions, MaxOfficialUrls), state_code, salt, time)

firecrawl_crawl_source(state_code, w, salt, time) ==
    IF w.markdown.kind # "page" THEN <<>>
    ELSE EnhanceAll(extract_opportunities_from_content(w.markdown, state_code, salt, time),
                    w.detail, TRUE)

-----------------------------------------------------------------------------
(* AI discovery: discover_opportunities_with_perplexity,                   *)
(* parse_perplexity_response and fallback_text_parsing.  The response is   *)
(* [kind |-> "error"] (the API call raised), or a text of which the model  *)
(* keeps: json |-> "list", "other" (valid JSON, not a list) or "invalid"   *)
(* (JSONDecodeError); grants |-> the records of the list; titles |-> what  *)
(* extract_grant_titles_from_text returns for the text, each with the      *)
(* amount found near it; urls |-> the raw matches of the URL patterns in   *)
(* the order list(urls) yields their cleaned forms.                        *)

MaxStructured == 5
MaxFallback == 3
MinTitleLen == 5

Default(v, d) == IF v = NONE THEN d ELSE v

\* an entry of the parsed list that is not a dict: grant.get raises, the
\* except clause of the loop skips the entry
NotARecord == [kind |-> "scalar"]

RECURSIVE GrantsToOpportunities(_, _, _, _)
GrantsToOpportunities(grants, state_code, salt, time) ==
    IF grants = <<>> THEN <<>>
    ELSE
    LET grant == Head(grants)
        rest == GrantsToOpportunities(Tail(grants), state_code, salt, time)
    IN
    IF grant = NotARecord THEN rest
    ELSE
    LET title == strip(Default(grant.title, <<>>))
        amount == strip(Default(grant.amount, AmountTBD))
        deadline == strip(Default(grant.deadline, CheckWebsite))
        url == strip(Default(grant.url, <<>>))
        clean_url == clean_extracted_url(url)
    IN  IF title = <<>> \/ Len(title) < MinTitleLen THEN rest
        ELSE IF clean_url = <<>> \/ ~StartsWith(clean_url, <<"h", "t", "t", "p">>) THEN rest
        ELSE IF ~is_high_quality_opportunity(title, clean_url, amount, deadline) THEN rest
        ELSE <<Opportunity(PerplexityId(state_code, title, salt, time),
                           title, STATE_CONFIGS[state_code].name, amount, deadline,
                           clean_url, {"K-12", "Education", "AI-Discovered"}, time,
                           "perplexity", ABSENT)>>
             \o rest

RECURSIVE CleanUrls(_, _)
\* extract_urls_from_text: every match is cleaned, empty results are dropped,
\* the others are kept as a set
CleanUrls(raw, seen) ==
    IF raw = <<>> THEN <<>>
    ELSE LET clean_url == clean_extracted_url(Head(raw))
         IN  IF clean_url # <<>> /\ clean_url \notin seen
             THEN <<clean_url>> \o CleanUrls(Tail(raw), seen \cup {clean_url})
             ELSE CleanUrls(Tail(raw), seen)

RECURSIVE Reverse(_)
Reverse(s) == IF s = <<>> THEN <<>> ELSE Append(Reverse(Tail(s)), Head(s))

\* list(urls): the iteration order of a set of strings follows their hashes,
\* which are salted per process
SetOrder(urls, salt) == IF salt % 2 = 0 THEN urls ELSE Reverse(urls)

extract_urls_from_text(response, salt) == SetOrder(CleanUrls(response.urls, {}), salt)

RECURSIVE TitlesNoReuse(_, _, _, _, _, _)
\* a pairing that never reuses the first URL: a title beyond the last URL is
\* dropped
TitlesNoReuse(titles, i, urls, state_code, salt, time) ==
    IF i > Len(titles) \/ i > Len(urls) THEN <<>>
    ELSE <<Opportunity(PerplexityId(state_code, titles[i].title, salt, time),
                       titles[i].title, STATE_CONFIGS[state_code].name, titles[i].amount,
                       CheckWebsite, urls[i],
                       {"K-12", "Education", "AI-Discovered", "Text-Parsed"}, time,
                       "perplexity_fallback", ABSENT)>>
         \o TitlesNoReuse(titles, i + 1, urls, state_code, salt, time)

RECURSIVE TitlesToOpportunities(_, _, _, _, _, _)
TitlesToOpportunities(titles, i, urls, state_code, salt, time) ==
    IF i > Len(titles) THEN <<>>
    ELSE
    LET entry == titles[i]
        rest == TitlesToOpportunities(titles, i + 1, urls, state_code, salt, time)
        assigned_url == IF i <= Len(urls) THEN urls[i]
                        ELSE IF urls # <<>> THEN urls[1]
                        ELSE <<>>
    IN  IF assigned_url # <<>> /\ StartsWith(assigned_url, <<"h", "t", "t", "p">>)
        THEN <<Opportunity(PerplexityId(state_code, entry.title, salt, time),
                           entry.title, STATE_CONFIGS[state_code].name, entry.amount,
                           CheckWebsite, assigned_url,
                           {"K-12", "Education", "AI-Discovered", "Text-Parsed"}, time,
                           "perplexity_fallback", ABSENT)>>
             \o rest
        ELSE rest

\* a response that is not a string makes re.findall raise: the except clause
\* returns the empty list
fallback_text_parsing(response, state_code, salt, time) ==
    IF response.kind # "text" THEN <<>>
    ELSE TitlesToOpportunities(Prefix(response.titles, MaxFallback), 1,
                               extract_urls_from_text(response, salt),
                               state_code, salt, time)

\* the response is not a string (strip raises), json.loads raised, or its
\* result is not a list
UsesFallback(response) == response.kind # "text" \/ response.json # "list"

\* both paths, one after the other
ParseBothPaths(response, state_code, salt, time) ==
    GrantsToOpportunities(Prefix(response.grants, MaxStructured), state_code, salt, time)
        \o fallback_text_parsing(response, state_code, salt, time)

parse_perplexity_response(response, state_code, salt, time) ==
    IF UsesFallback(response)
    THEN fallback_text_parsing(response, state_code, salt, time)
    ELSE GrantsToOpportunities(Prefix(response.grants, MaxStructured), state_code, salt, time)

discover_opportunities_with_perplexity(state_code, w, px, salt, time) ==
    IF ~px THEN <<>>
    ELSE IF w.ai.kind # "text" THEN <<>>
    ELSE parse_perplexity_response(w.ai, state_code, salt, time)

-----------------------------------------------------------------------------
(* Source Strategy Orchestrator.  Every function returns its batch and the *)
(* calls it made, in the order in which they returned.                     *)

NoCalls == [opps |-> <<>>, calls |-> <<>>]

\* function f returns the batch, after the calls it made itself
Returned(f, state_code, inner, opportunities) ==
    [opps |-> opportunities,
     calls |-> inner \o <<Call(f, state_code, opportunities)>>]

\* function f returns what its callee returned
Forwarded(f, state_code, callee) == Returned(f, state_code, callee.calls, callee.opps)

\* Fault: the second strategy runs whatever the first one returned.
RunsBoth(first, second) ==
    [opps |-> first.opps \o second.opps, calls |-> first.calls \o second.calls]

\* "if not opportunities: opportunities = <second strategy>"
OrElse(first, second) ==
    IF first.opps = <<>>
    THEN [opps |-> second.opps, calls |-> first.calls \o second.calls]
    ELSE first

crawl_official_sources(state_code, st, w, px, fc, salt, time) ==
    IF state_code \notin Sources THEN NoCalls
    ELSE IF st = "inactive"
    THEN Returned("crawl_official_sources", state_code, <<>>, <<>>)
    ELSE IF fc
    THEN Forwarded("crawl_official_sources", state_code,
            Returned("firecrawl_crawl_source", state_code, <<>>,
                     firecrawl_crawl_source(state_code, w, salt, time)))
    ELSE Forwarded("crawl_official_sources", state_code,
            Returned("discover_opportunities_with_perplexity", state_code, <<>>,
                     discover_opportunities_with_perplexity(state_code, w, px, salt, time)))

\* the enhancement loop at the end of ai_powered_scrape_opportunities
EnhancedBatch(state_code, chosen, detail, fc) ==
    Returned("ai_powered_scrape_opportunities", state_code, chosen.calls,
             EnhanceAll(chosen.opps, detail, fc))

ai_powered_scrape_opportunities(state_code, st, w, px, fc, salt, time) ==
    IF state_code \notin Sources THEN NoCalls
    ELSE EnhancedBatch(state_code,
            OrElse(crawl_official_sources(state_code, st, w, px, fc, salt, time),
                   Returned("scrape_opportunities", state_code, <<>>,
                            scrape_opportunities(state_code, st, w.html, time))),
            w.detail, fc)

\* Fault: only the sources marked blocked or inactive are skipped.
PassUnlessInactive(state_code, st, w, px, fc, salt, time) ==
    IF st \in {"blocked", "inactive"} THEN NoCalls
    ELSE IF px /\ fc
    THEN OrElse(ai_powered_scrape_opportunities(state_code, st, w, px, fc, salt, time),
                Returned("scrape_opportunities", state_code, <<>>,
                         scrape_opportunities(state_code, st, w.html, time)))
    ELSE Returned("scrape_opportunities", state_code, <<>>,
                  scrape_opportunities(state_code, st, w.html, time))

\* the strategy part of one iteration of the loop of check_all_states
SourcePass(state_code, st, w, px, fc, salt, time) ==
    IF st # "active" THEN NoCalls
    ELSE IF px /\ fc
    THEN OrElse(ai_powered_scrape_opportunities(state_code, st, w, px, fc, salt, time),
                Returned("scrape_opportunities", state_code, <<>>,
                         scrape_opportunities(state_code, st, w.html, time)))
    ELSE Returned("scrape_opportunities", state_code, <<>>,
                  scrape_opportunities(state_code, st, w.html, time))

-----------------------------------------------------------------------------
(* Dedup/Identity Gate and the opportunities table                         *)

DefaultScore == 50

Get(v, d) == IF v = ABSENT THEN d ELSE v

\* the row the INSERT statement writes for a candidate
Row(opp) ==
    [id |-> opp.id, title |-> opp.title, state |-> opp.state, amount |-> opp.amount,
     deadline |-> opp.deadline, url |-> opp.url, tags |-> opp.tags,
     found_date |-> opp.found_date,
     eligibility |-> Get(opp.eligibility, ""),
     description |-> Get(opp.description, ""),
     contact_info |-> Get(opp.contact_info, ""),
     source_type |-> Get(opp.source_type, "unknown"),
     quality_score |-> IF opp.quality_score = NoScore THEN DefaultScore ELSE opp.quality_score,
     application_process |-> Get(opp.application_process, ""),
     source_reliability |-> Get(opp.source_reliability, "medium")]

\* SELECT id FROM opportunities WHERE id = ?
Exists(rows, id) == \E r \in rows : r.id = id

\* Fault: INSERT without the lookup, on a table without a key constraint.
InsertAlways(rows, opp) == rows \cup {Row(opp)}

\* Fault: INSERT OR REPLACE, the stored row is overwritten by the candidate.
InsertOrReplace(rows, opp) == {r \in rows : r.id # opp.id} \cup {Row(opp)}

\* "Check if already exists" then INSERT
InsertIfAbsent(rows, opp) ==
    IF Exists(rows, opp.id) THEN rows ELSE rows \cup {Row(opp)}

RECURSIVE GateReportsAll(_, _, _)
\* Fault: every candidate is appended to new_opportunities, stored or not.
GateReportsAll(opps, rows, new_opportunities) ==
    IF opps = <<>> THEN [rows |-> rows, new |-> new_opportunities]
    ELSE GateReportsAll(Tail(opps), InsertIfAbsent(rows, Head(opps)),
                        Append(new_opportunities, Head(opps)))

RECURSIVE Gate(_, _, _)
\* the loop "for opp in opportunities" of check_all_states
Gate(opps, rows, new_opportunities) ==
    IF opps = <<>> THEN [rows |-> rows, new |-> new_opportunities]
    ELSE LET opp == Head(opps)
         IN  Gate(Tail(opps), InsertIfAbsent(rows, opp),
                  IF Exists(rows, opp.id) THEN new_opportunities
                  ELSE Append(new_opportunities, opp))

RECURSIVE RunSources(_, _, _)
\* Fault: the loop ends at the first source whose pass yields nothing.
StopAtFailedSource(codes, pass, acc, calls) ==
    IF pass.opps = <<>>
    THEN [rows |-> acc.rows, new |-> acc.new, calls |-> calls \o pass.calls]
    ELSE RunSources(codes, Gate(pass.opps, acc.rows, acc.new), calls \o pass.calls)

\* what one iteration of the loop does with the batch of its source
GateSource(codes, pass, acc, calls) ==
    RunSources(codes, Gate(pass.opps, acc.rows, acc.new), calls \o pass.calls)

\* the loop "for state_code in STATE_CONFIGS" of check_all_states
RunSources(codes, acc, calls) ==
    IF codes = <<>> THEN [rows |-> acc.rows, new |-> acc.new, calls |-> calls]
    ELSE GateSource(Tail(codes),
                    SourcePass(Head(codes), status[Head(codes)], web[Head(codes)],
                               perplexity_client, firecrawl_app, seed, now),
                    acc, calls)

NotCalled == [called |-> FALSE, batch |-> <<>>]

MaxRuns == 2      \* store-writing handler runs explored

check_all_states ==
    /\ runs < MaxRuns
    /\ runs' = runs + 1
    /\ \E run \in {RunSources(SourceOrder, [rows |-> store, new |-> <<>>], <<>>)} :
          /\ store' = run.rows
          /\ result' = run.new
          /\ trace' = run.calls
          /\ alerted' = IF run.new # <<>> THEN [called |-> TRUE, batch |-> run.new]
                        ELSE NotCalled
    /\ handler' = "check_all_states"
    /\ prevStore' = store
    /\ repeat' = fresh
    /\ fresh' = TRUE
    /\ UNCHANGED <<status, perplexity_client, firecrawl_app, seed, now, web, hvars, rvars>>

\* POST /api/scrape/ai/<state_code>
test_ai_scrape(state_code) ==
    /\ perplexity_client \/ firecrawl_app
    /\ \E ai \in {ai_powered_scrape_opportunities(state_code, status[state_code],
                    web[state_code], perplexity_client, firecrawl_app, seed, now)} :
          /\ result' = ai.opps
          /\ trace' = ai.calls
    /\ handler' = "test_ai_scrape"
    /\ prevStore' = store
    /\ alerted' = NotCalled
    /\ UNCHANGED <<status, perplexity_client, firecrawl_app, seed, now, web, store,
                   fresh, repeat, runs, hvars, rvars>>

LiteralId(s) == <<s, "", <<"literal", 0, <<>>>>, 0>>

verified_opportunities == <<
    [id |-> LiteralId("CA_golden_state_pathways_2024"),
     title |-> <<"G", "o", "l", "d", "e", "n", " ", "S", "t", "a", "t", "e", " ", "P", "a", "t", "h", "w", "a", "y", "s", " ", "P", "r", "o", "g", "r", "a", "m", " ", "-", " ", "S", "T", "E", "M", " ", "C", "a", "r", "e", "e", "r", " ", "P", "a", "t", "h", "w", "a", "y", "s">>,
     state |-> "California",
     amount |-> <<"$", "4", "7", "0", ",", "0", "0", "0", ",", "0", "0", "0">>,
     deadline |-> <<"R", "o", "l", "l", "i", "n", "g", " ", "-", " ", "C", "h", "e", "c", "k", " ", "C", "D", "E", " ", "w", "e", "b", "s", "i", "t", "e">>,
     url |-> <<"h", "t", "t", "p", "s", ":", "/", "/", "w", "w", "w", ".", "c", "d", "e", ".", "c", "a", ".", "g", "o", "v", "/", "f", "g", "/", "f", "o", "/", "a", "f", "/">>,
     tags |-> {"STEM", "Career Pathways", "High School", "K-12"}, source_type |-> "state", quality_score |-> 90],
    [id |-> LiteralId("FL_computer_science_bonus_2025"),
     title |-> <<"C", "o", "m", "p", "u", "t", "e", "r", " ", "S", "c", "i", "e", "n", "c", "e", " ", "T", "e", "a", "c", "h", "e", "r", " ", "B", "o", "n", "u", "s", " ", "G", "r", "a", "n", "t">>,
     state |-> "Florida",
     amount |-> <<"A", "m", "o", "u", "n", "t", " ", "T", "B", "D">>,
     deadline |-> <<"J", "a", "n", "u", "a", "r", "y", " ", "3", "0", ",", " ", "2", "0", "2", "5">>,
     url |-> <<"h", "t", "t", "p", "s", ":", "/", "/", "w", "w", "w", ".", "f", "l", "d", "o", "e", ".", "o", "r", "g", "/", "a", "c", "a", "d", "e", "m", "i", "c", "s", "/", "s", "t", "a", "n", "d", "a", "r", "d", "s", "/", "s", "u", "b", "j", "e", "c", "t", "-", "a", "r", "e", "a", "s", "/", "c", "o", "m", "p", "u", "t", "e", "r", "-", "s", "c", "i", "e", "n", "c", "e", "/", "f", "u", "n", "d", "i", "n", "g", ".", "s", "t", "m", "l">>,
     tags |-> {"Computer Science", "Teacher Bonus", "K-12", "STEM"}, source_type |-> "state", quality_score |-> 85],
    [id |-> LiteralId("NSF_drk12_2024"),
     title |-> <<"N", "S", "F", " ", "D", "i", "s", "c", "o", "v", "e", "r", "y", " ", "R", "e", "s", "e", "a", "r", "c", "h", " ", "P", "r", "e", "K", "-", "1", "2", " ", "(", "D", "R", "K", "-", "1", "2", ")">>,
     state |-> "Federal",
     amount |-> <<"U", "p", " ", "t", "o", " ", "$", "3", ",", "0", "0", "0", ",", "0", "0", "0">>,
     deadline |-> <<"R", "o", "l", "l", "i", "n", "g", " ", "s", "u", "b", "m", "i", "s", "s", "i", "o", "n", "s">>,
     url |-> <<"h", "t", "t", "p", "s", ":", "/", "/", "w", "w", "w", ".", "n", "s", "f", ".", "g", "o", "v", "/", "f", "u", "n", "d", "i", "n", "g", "/", "o", "p", "p", "o", "r", "t", "u", "n", "i", "t", "i", "e", "s", "/", "d", "r", "k", "-", "1", "2", "-", "d", "i", "s", "c", "o", "v", "e", "r", "y", "-", "r", "e", "s", "e", "a", "r", "c", "h", "-", "p", "r", "e", "k", "-", "1", "2", "/", "n", "s", "f", "2", "3", "-", "5", "9", "6", "/", "s", "o", "l", "i", "c", "i", "t", "a", "t", "i", "o", "n">>,
     tags |-> {"STEM", "Research", "PreK-12", "Federal"}, source_type |-> "federal", quality_score |-> 95],
    [id |-> LiteralId("TX_tstem_planning_2025"),
     title |-> <<"T", "-", "S", "T", "E", "M", " ", "P", "l", "a", "n", "n", "i", "n", "g", " ", "a", "n", "d", " ", "I", "m", "p", "l", "e", "m", "e", "n", "t", "a", "t", "i", "o", "n", " ", "G", "r", "a", "n", "t">>,
     state |-> "Texas",
     amount |-> <<"U", "p", " ", "t", "o", " ", "$", "6", ",", "0", "0", "0">>,
     deadline |-> <<"F", "e", "b", "r", "u", "a", "r", "y", " ", "2", "0", "2", "5", " ", "(", "e", "s", "t", "i", "m", "a", "t", "e", "d", ")">>,
     url |-> <<"h", "t", "t", "p", "s", ":", "/", "/", "t", "e", "a", ".", "t", "e", "x", "a", "s", ".", "g", "o", "v", "/", "f", "i", "n", "a", "n", "c", "e", "-", "a", "n", "d", "-", "g", "r", "a", "n", "t", "s", "/", "g", "r", "a", "n", "t", "s", "/", "g", "r", "a", "n", "t", "s", "-", "a", "d", "m", "i", "n", "i", "s", "t", "r", "a", "t", "i", "o", "n", "/", "g", "r", "a", "n", "t", "s", "-", "a", "w", "a", "r", "d", "e", "d", "/", "2", "0", "2", "2", "-", "2", "0", "2", "4", "-", "t", "-", "s", "t", "e", "m", "-", "p", "l", "a", "n", "n", "i", "n", "g", "-", "a", "n", "d", "-", "i", "m", "p", "l", "e", "m", "e", "n", "t", "a", "t", "i", "o", "n", "-", "g", "r", "a", "n", "t">>,
     tags |-> {"T-STEM", "Academy Planning", "STEM", "High School"}, source_type |-> "state", quality_score |-> 80],
    [id |-> LiteralId("ED_eir_innovation_2024"),
     title |-> <<"E", "d", "u", "c", "a", "t", "i", "o", "n", " ", "I", "n", "n", "o", "v", "a", "t", "i", "o", "n", " ", "a", "n", "d", " ", "R", "e", "s", "e", "a", "r", "c", "h", " ", "(", "E", "I", "R", ")", " ", "P", "r", "o", "g", "r", "a", "m">>,
     state |-> "Federal",
     amount |-> <<"V", "a", "r", "i", "o", "u", "s", " ", "l", "e", "v", "e", "l", "s", " ", "a", "v", "a", "i", "l", "a", "b", "l", "e">>,
     deadline |-> <<"J", "u", "l", "y", " ", "2", "0", "2", "4", " ", "(", "n", "e", "x", "t", " ", "c", "y", "c", "l", "e", " ", "T", "B", "D", ")">>,
     url |-> <<"h", "t", "t", "p", "s", ":", "/", "/", "w", "w", "w", ".", "e", "d", ".", "g", "o", "v", "/", "g", "r", "a", "n", "t", "s", "-", "a", "n", "d", "-", "p", "r", "o", "g", "r", "a", "m", "s", "/", "g", "r", "a", "n", "t", "s", "-", "s", "p", "e", "c", "i", "a", "l", "-", "p", "o", "p", "u", "l", "a", "t", "i", "o", "n", "s", "/", "e", "c", "o", "n", "o", "m", "i", "c", "a", "l", "l", "y", "-", "d", "i", "s", "a", "d", "v", "a", "n", "t", "a", "g", "e", "d", "-", "s", "t", "u", "d", "e", "n", "t", "s", "/", "e", "d", "u", "c", "a", "t", "i", "o", "n", "-", "i", "n", "n", "o", "v", "a", "t", "i", "o", "n", "-", "a", "n", "d", "-", "r", "e", "s", "e", "a", "r", "c", "h">>,
     tags |-> {"Innovation", "Research", "Early-phase", "Federal"}, source_type |-> "federal", quality_score |-> 90],
    [id |-> LiteralId("CA_title3_english_learner_2026"),
     title |-> <<"T", "i", "t", "l", "e", " ", "I", "I", "I", " ", "E", "n", "g", "l", "i", "s", "h", " ", "L", "e", "a", "r", "n", "e", "r", " ", "S", "t", "u", "d", "e", "n", "t", " ", "P", "r", "o", "g", "r", "a", "m">>,
     state |-> "California",
     amount |-> <<"A", "m", "o", "u", "n", "t", " ", "v", "a", "r", "i", "e", "s", " ", "b", "y", " ", "d", "i", "s", "t", "r", "i", "c", "t">>,
     deadline |-> <<"J", "u", "n", "e", " ", "3", "0", ",", " ", "2", "0", "2", "5">>,
     url |-> <<"h", "t", "t", "p", "s", ":", "/", "/", "w", "w", "w", ".", "c", "d", "e", ".", "c", "a", ".", "g", "o", "v", "/", "f", "g", "/", "f", "o", "/", "p", "r", "o", "f", "i", "l", "e", ".", "a", "s", "p", "?", "i", "d", "=", "6", "4", "2", "7">>,
     tags |-> {"English Learners", "Title III", "K-12", "Federal"}, source_type |-> "federal", quality_score |-> 75]>>

\* the row written for a literal; its free-text fields are kept as one value
VerifiedRow(v, time) ==
    [id |-> v.id, title |-> v.title, state |-> v.state, amount |-> v.amount,
     deadline |-> v.deadline, url |-> v.url, tags |-> v.tags, found_date |-> time,
     eligibility |-> "verified", description |-> "verified",
     contact_info |-> "verified", source_type |-> v.source_type,
     quality_score |-> v.quality_score, application_process |-> "verified",
     source_reliability |-> "high"]

RECURSIVE AddVerified(_, _, _)
AddVerified(vs, rows, time) ==
    IF vs = <<>> THEN rows
    ELSE AddVerified(Tail(vs),
                     IF Exists(rows, Head(vs).id) THEN rows
                     ELSE rows \cup {VerifiedRow(Head(vs), time)},
                     time)

\* POST /api/populate-verified
add_verified_opportunities ==
    /\ runs < MaxRuns
    /\ runs' = runs + 1
    /\ store' = AddVerified(verified_opportunities, store, now)
    /\ handler' = "add_verified_opportunities"
    /\ result' = <<>>
    /\ trace' = <<>>
    /\ alerted' = NotCalled
    /\ prevStore' = store
    /\ UNCHANGED <<status, perplexity_client, firecrawl_app, seed, now, web,
                   fresh, repeat, hvars, rvars>>

-----------------------------------------------------------------------------
(* The environment: upstream content, the clock, process restarts          *)

MaxTime == 2      \* the clock runs from 0 to MaxTime (two ticks a day)
MaxSeed == 1      \* number of process restarts

tGood == <<"S", "T", "E", "M", " ", "G", "r", "a", "n", "t", "s">>
tDeny == <<"S", "T", "E", "M", " ", "G", "r", "a", "n", "t", " ", "B", "u", "d", "g", "e", "t">>
tNsf == <<"N", "S", "F", " ", "S", "T", "E", "M", " ", "F", "u", "n", "d", "i", "n", "g">>

Link(text, href) == [text |-> text, href |-> href]
lRel == Link(tGood, <<"/", "g", "r", "a", "n", "t", "s">>)
lAbs == Link(tGood, <<"h", "t", "t", "p", "s", ":", "/", "/", "x", ".", "g", "o", "v", "/", "g", "r", "a", "n", "t", "s">>)
lDeny == Link(tDeny, <<"/", "a", "r", "c", "h", "i", "v", "e", "/", "x", ".", "p", "d", "f">>)
lNav == Link(<<"C", "o", "n", "t", "a", "c", "t", " ", "u", "s", " ", "a", "b", "o", "u", "t", " ", "g", "r", "a", "n", "t", "s">>, <<"/", "c", "o", "n", "t", "a", "c", "t">>)
lNsf == Link(tNsf, <<"h", "t", "t", "p", "s", ":", "/", "/", "w", "w", "w", ".", "n", "s", "f", ".", "g", "o", "v", "/", "f", "u", "n", "d", "i", "n", "g", "/", "x">>)

FetchError == [kind |-> "error"]

\* a fetched page on which only the first selector of the source finds links
Page(state_code, links) ==
    [kind |-> "page",
     sel |-> [s \in {STATE_CONFIGS[state_code].selectors[i] :
                        i \in 1..Len(STATE_CONFIGS[state_code].selectors)} |->
                 IF s = STATE_CONFIGS[state_code].selectors[1] THEN links ELSE <<>>],
     raises |-> {}]

Mention(title, url) == [title |-> title, url |-> url]
Markdown(mentions) == [kind |-> "page", mentions |-> mentions]

uGrants == <<"h", "t", "t", "p", "s", ":", "/", "/", "x", ".", "g", "o", "v", "/", "g", "r", "a", "n", "t", "s">>
uDirty == <<"h", "t", "t", "p", "s", ":", "/", "/", "x", ".", "g", "o", "v", "/", "g", "r", "a", "n", "t", "s", ".">>
uArchive == <<"h", "t", "t", "p", "s", ":", "/", "/", "x", ".", "g", "o", "v", "/", "a", "r", "c", "h", "i", "v", "e", "/", "g", "r", "a", "n", "t", "s">>

\* a fetched page on whose first selector soup.select raises and whose second
\* selector finds the links
PageRaising(state_code, links) ==
    [kind |-> "page",
     sel |-> [s \in {STATE_CONFIGS[state_code].selectors[i] :
                        i \in 1..Len(STATE_CONFIGS[state_code].selectors)} |->
                 IF s = STATE_CONFIGS[state_code].selectors[2] THEN links ELSE <<>>],
     raises |-> {STATE_CONFIGS[state_code].selectors[1]}]

HtmlPagesTX ==
    { FetchError,
      PageRaising("TX", <<lRel>>),
      Page("TX", <<lRel>>),
      Page("TX", <<lAbs, lDeny>>),
      Page("TX", <<lNav>>) }

\* a detail page on which the patterns of every mined field match
DetailPage ==
    [kind |-> "page",
     deadlines |-> <<<<"J", "u", "n", "e", " ", "1">>>>,
     amounts |-> <<<<"5", ",", "0", "0", "0">>>>,
     eligibility |-> "K-12 districts", description |-> "STEM programs",
     contact_info |-> ABSENT, application_process |-> ABSENT,
     math |-> FALSE, stem |-> TRUE]

Grant(title, amount, deadline, url) ==
    [title |-> title, amount |-> amount, deadline |-> deadline, url |-> url]

AiResponses ==
    { FetchError,
      [kind |-> "text", json |-> "list",
       grants |-> <<Grant(tGood, <<"$", "5">>, NONE, <<"h", "t", "t", "p", "s", ":", "/", "/", "x", ".", "g", "o", "v", "/", "a", "p", "p", "l", "y", ")", ".">>),
                    Grant(tGood, NONE, NONE, uArchive)>>,
       titles |-> <<>>, urls |-> <<>>],
      [kind |-> "text", json |-> "invalid", grants |-> <<>>,
       titles |-> <<[title |-> tDeny, amount |-> AmountTBD]>>,
       urls |-> <<<<"h", "t", "t", "p", "s", ":", "/", "/", "x", ".", "g", "o", "v", "/", "g", "r", "a", "n", "t", "s", "[", "1", "]">>>>] }

W(markdown, detail, ai, html) ==
    [markdown |-> markdown, detail |-> detail, ai |-> ai, html |-> html]

\* the response of the AI service holds one record, complete but for its
\* archived URL
AiArchiveOnly ==
    [kind |-> "text", json |-> "list",
     grants |-> <<Grant(tGood, <<"$", "5">>, <<"M", "a", "y", " ", "1">>, uArchive)>>,
     titles |-> <<>>, urls |-> <<>>]

\* Content that no call can read is sampled once: the markdown and the detail
\* pages are fetched through Firecrawl only, the AI response through the
\* Perplexity client, and only when Firecrawl is absent.
WebTX(px, fc) ==
    IF fc THEN
        { W(FetchError, FetchError, FetchError, FetchError),
          W(Markdown(<<Mention(tGood, uGrants)>>), FetchError, FetchError, Page("TX", <<lRel>>)),
          W(Markdown(<<Mention(tGood, uGrants)>>), DetailPage, FetchError, Page("TX", <<lRel>>)),
          W(Markdown(<<Mention(tGood, uDirty)>>), FetchError, FetchError, FetchError),
          W(Markdown(<<Mention(tGood, uArchive), Mention(NONE, uGrants)>>), FetchError,
            FetchError, Page("TX", <<lRel>>)),
          W(FetchError, DetailPage, AiArchiveOnly, Page("TX", <<lAbs, lDeny>>)),
          W(FetchError, FetchError, FetchError, Page("TX", <<lNav>>)) }
    ELSE IF px THEN
        { W(FetchError, FetchError, a, h) :
            a \in AiResponses, h \in {FetchError, Page("TX", <<lRel>>)} }
    ELSE
        { W(FetchError, FetchError, FetchError, h) : h \in HtmlPagesTX }

\* The second source serves one listing page throughout; its other content
\* is unreachable.
WebNSF == { W(FetchError, FetchError, FetchError, Page("NSF_DRK12", <<lNsf>>)) }

WebOf(state_code, px, fc) == IF state_code = "TX" THEN WebTX(px, fc) ELSE WebNSF

\* The response of the last handler has been delivered: what it returned and
\* the history kept about it are dropped when the environment moves on.
Forget ==
    /\ handler' = "none"
    /\ result' = <<>>
    /\ trace' = <<>>
    /\ prevStore' = {}
    /\ repeat' = FALSE
    /\ alerted' = NotCalled

\* the content of a source changes
WebChange(state_code) ==
    /\ \E w \in WebOf(state_code, perplexity_client, firecrawl_app) :
          /\ w # web[state_code]
          /\ web' = [web EXCEPT ![state_code] = w]
    /\ fresh' = FALSE
    /\ Forget
    /\ UNCHANGED <<status, perplexity_client, firecrawl_app, seed, now, store, runs, hvars, rvars>>

\* time passes
Tick ==
    /\ now < MaxTime
    /\ now' = now + 1
    /\ fresh' = (fresh /\ DateBucket(now + 1) = DateBucket(now))
    /\ Forget
    /\ UNCHANGED <<status, perplexity_client, firecrawl_app, seed, web, store, runs, hvars, rvars>>

\* the process is restarted: the table is on disk, the hash salt is new
Restart ==
    /\ seed < MaxSeed
    /\ seed' = seed + 1
    /\ Forget
    /\ UNCHANGED <<status, perplexity_client, firecrawl_app, now, web, store, fresh, runs, hvars, rvars>>

HarnessIdle == fn = "none" /\ arg = <<>> /\ ret = <<>>

\* the threads that call check_all_states: the job of the background
\* scheduler and the request thread of POST /api/scrape
Triggers == {"cron", "manual"}

MaxStarts == 1    \* runs each thread starts

Local0 ==
    [starts |-> 0, codes |-> <<>>, opportunities |-> <<>>, new_opportunities |-> <<>>,
     tx |-> {}, cause |-> "none", alerted |-> NotCalled, unsent |-> {}]

\* no thread is in check_all_states
RunsIdle ==
    /\ pc = [t \in Triggers |-> "idle"]
    /\ loc = [t \in Triggers |-> Local0]
    /\ lock = "none"

\* The module is loaded: init_db has created an empty table, the clients
\* exist or not according to the environment, no handler has run.  The
\* status of the first source ranges over the values a profile can hold.
Init ==
    /\ status \in {f \in [Sources -> Statuses] : f["NSF_DRK12"] = "active"}
    /\ perplexity_client \in BOOLEAN
    /\ firecrawl_app \in BOOLEAN
    /\ seed = 0
    /\ now = 0
    /\ web \in {f \in [Sources -> WebTX(perplexity_client, firecrawl_app) \cup WebNSF] :
                  \A s \in Sources : f[s] \in WebOf(s, perplexity_client, firecrawl_app)}
    /\ store = {}
    /\ handler = "none"
    /\ result = <<>>
    /\ trace = <<>>
    /\ prevStore = {}
    /\ fresh = FALSE
    /\ repeat = FALSE
    /\ alerted = NotCalled
    /\ runs = 0
    /\ HarnessIdle
    /\ RunsIdle

Next ==
    \/ check_all_states
    \/ add_verified_opportunities
    \/ \E state_code \in Sources : test_ai_scrape(state_code)
    \/ \E state_code \in Sources : WebChange(state_code)
    \/ Tick
    \/ Restart

Spec == Init /\ [][Next]_vars

-----------------------------------------------------------------------------
(* check_all_states statement by statement, run by the threads of the      *)
(* process on one database file.  Every thread has its own connection: it  *)
(* reads the committed rows and its own uncommitted ones (tx), the first   *)
(* INSERT takes the write lock, commit publishes tx and releases the lock. *)
(* Any statement on the connection may raise sqlite3.Error; an exception   *)
(* leaves check_all_states, the connection is dropped and tx is lost.      *)

Subscribers == {"a@k12.example", "b@k12.example"}

\* the statements of check_all_states that use the database
DbSteps == {"lookup", "insert", "commit", "alert"}

\* Fault: the error is logged and the run goes on to commit.
CommitsAfterDbError(step) == "commit"

\* check_all_states has no handler: the exception leaves the function
AfterDbError(step) == "raised"

\* Fault: send_opportunity_email lets the error of send_email through.
RaisesOnSenderError(unsent) == IF unsent = {} THEN "returned" ELSE "raised"

\* send_opportunity_email logs the error of send_email; send_alerts returns
AfterAlert(unsent) == "returned"

Running(t) == pc[t] \notin {"idle", "returned", "raised"}

\* where the loop over the candidates of a source goes after one candidate
AfterCandidate(rest) == IF rest = <<>> THEN "source" ELSE "lookup"

\* the scheduler fires the job, or a POST /api/scrape arrives
Trigger(t) ==
    /\ ~Running(t)
    /\ loc[t].starts < MaxStarts
    /\ pc' = [pc EXCEPT ![t] = "source"]
    /\ loc' = [loc EXCEPT ![t] = [Local0 EXCEPT !.starts = loc[t].starts + 1,
                                                !.codes = SourceOrder]]
    /\ UNCHANGED <<mvars, hvars, lock>>

\* for state_code in STATE_CONFIGS: the strategies of the next source
NextSource(t) ==
    /\ pc[t] = "source"
    /\ IF loc[t].codes = <<>>
       THEN /\ pc' = [pc EXCEPT ![t] = "commit"]
            /\ loc' = loc
       ELSE \E pass \in {SourcePass(Head(loc[t].codes), status[Head(loc[t].codes)],
                                    web[Head(loc[t].codes)], perplexity_client,
                                    firecrawl_app, seed, now)} :
                /\ pc' = [pc EXCEPT ![t] = AfterCandidate(pass.opps)]
                /\ loc' = [loc EXCEPT ![t].codes = Tail(loc[t].codes),
                                      ![t].opportunities = pass.opps]
    /\ UNCHANGED <<mvars, hvars, lock>>

\* SELECT id FROM opportunities WHERE id = ? and the test of c.fetchone()
Lookup(t) ==
    /\ pc[t] = "lookup"
    /\ IF Exists(store \cup loc[t].tx, Head(loc[t].opportunities).id)
       THEN /\ pc' = [pc EXCEPT ![t] = AfterCandidate(Tail(loc[t].opportunities))]
            /\ loc' = [loc EXCEPT ![t].opportunities = Tail(loc[t].opportunities)]
       ELSE /\ pc' = [pc EXCEPT ![t] = "insert"]
            /\ loc' = [loc EXCEPT ![t].new_opportunities =
                                      Append(loc[t].new_opportunities,
                                             Head(loc[t].opportunities))]
    /\ UNCHANGED <<mvars, hvars, lock>>

\* Fault: a table without primary key, where the INSERT succeeds whatever
\* has been committed since the lookup
InsertNoKey(t) ==
    /\ pc[t] = "insert"
    /\ lock \in {"none", t}
    /\ lock' = t
    /\ pc' = [pc EXCEPT ![t] = AfterCandidate(Tail(loc[t].opportunities))]
    /\ loc' = [loc EXCEPT ![t].tx = loc[t].tx \cup {Row(Head(loc[t].opportunities))},
                          ![t].opportunities = Tail(loc[t].opportunities)]
    /\ UNCHANGED <<mvars, hvars>>

\* INSERT INTO opportunities: needs the write lock, and the primary key
\* rejects an id that another connection has committed since the lookup
Insert(t) ==
    /\ pc[t] = "insert"
    /\ lock \in {"none", t}
    /\ ~Exists(store, Head(loc[t].opportunities).id)
    /\ lock' = t
    /\ pc' = [pc EXCEPT ![t] = AfterCandidate(Tail(loc[t].opportunities))]
    /\ loc' = [loc EXCEPT ![t].tx = loc[t].tx \cup {Row(Head(loc[t].opportunities))},
                          ![t].opportunities = Tail(loc[t].opportunities)]
    /\ UNCHANGED <<mvars, hvars>>

\* conn.commit(); conn.close()
Commit(t) ==
    /\ pc[t] = "commit"
    /\ store' = store \cup loc[t].tx
    /\ lock' = IF lock = t THEN "none" ELSE lock
    /\ pc' = [pc EXCEPT ![t] = IF loc[t].new_opportunities # <<>> THEN "alert"
                               ELSE "returned"]
    /\ loc' = [loc EXCEPT ![t].tx = {}]
    /\ UNCHANGED <<status, perplexity_client, firecrawl_app, seed, now, web, handler,
                   result, trace, prevStore, fresh, repeat, alerted, runs, hvars>>

\* send_alerts(new_opportunities): the subscribers are read and every one of
\* them is mailed; send_email fails for the subscribers in unsent
send_alerts(t) ==
    /\ pc[t] = "alert"
    /\ \E unsent \in SUBSET Subscribers :
          /\ pc' = [pc EXCEPT ![t] = AfterAlert(unsent)]
          /\ loc' = [loc EXCEPT ![t].alerted = [called |-> TRUE,
                                                batch |-> loc[t].new_opportunities],
                                ![t].unsent = unsent]
    /\ UNCHANGED <<mvars, hvars, lock>>

\* a statement on the connection raises (I/O error, "database is locked",
\* UNIQUE constraint failed)
DbError(t) ==
    /\ pc[t] \in DbSteps
    /\ pc' = [pc EXCEPT ![t] = AfterDbError(pc[t])]
    /\ lock' = IF lock = t THEN "none" ELSE lock
    /\ loc' = [loc EXCEPT ![t].cause = pc[t],
                          ![t].tx = {},
                          ![t].alerted = IF pc[t] = "alert"
                                         THEN [called |-> TRUE,
                                               batch |-> loc[t].new_opportunities]
                                         ELSE NotCalled]
    /\ UNCHANGED <<mvars, hvars>>

\* The module is loaded without AI clients or with both; the table is empty
\* and no thread has started.
InitRuns ==
    /\ status = [s \in Sources |-> "active"]
    /\ perplexity_client \in BOOLEAN
    /\ firecrawl_app = perplexity_client
    /\ seed = 0
    /\ now = 0
    /\ web \in {f \in [Sources -> WebTX(perplexity_client, firecrawl_app) \cup WebNSF] :
                  \A s \in Sources : f[s] \in WebOf(s, perplexity_client, firecrawl_app)}
    /\ store = {}
    /\ handler = "none"
    /\ result = <<>>
    /\ trace = <<>>
    /\ prevStore = {}
    /\ fresh = FALSE
    /\ repeat = FALSE
    /\ alerted = NotCalled
    /\ runs = 0
    /\ HarnessIdle
    /\ RunsIdle

NextRuns ==
    \E t \in Triggers :
        \/ Trigger(t)
        \/ NextSource(t)
        \/ Lookup(t)
        \/ Insert(t)
        \/ Commit(t)
        \/ send_alerts(t)
        \/ DbError(t)

SpecRuns == InitRuns /\ [][NextRuns]_vars

-----------------------------------------------------------------------------
(* Pure-function specifications: Init draws the input, the action applies  *)
(* the function once.                                                      *)

PENDING == <<"pending">>
PyBool(b) == IF b THEN <<"True">> ELSE <<"False">>

MaxTail == 3          \* trailing artifacts appended to a sampled URL
MaxTitlePieces == 2   \* pieces concatenated into a sampled title
MaxUrlPieces == 1     \* path pieces appended to a sampled candidate URL

RECURSIVE Concats(_, _)
\* all concatenations of at most n pieces
Concats(pieces, n) ==
    IF n = 0 THEN {<<>>}
    ELSE LET shorter == Concats(pieces, n - 1)
         IN  shorter \cup {s \o q : s \in shorter, q \in pieces}

UrlLeads == { <<>>, <<" ">> }
UrlHeads ==
    { <<"h", "t", "t", "p", "s", ":", "/", "/", "a", ".", "e", "x", "a", "m", "p", "l", "e", ".", "c", "o", "m", "/", "x">>,
      <<"h", "t", "t", "p", ":", "/", "/", "a", ".", "c", "o">>,
      <<"h", "t", "t", "p", ":", "/", "/", "a", "b">>,
      <<"f", "t", "p", ":", "/", "/", "a", ".", "c", "o">>,
      <<"h", "t", "t", "p", ":", "/", "/", "a", " ", "b", ".", "c", "o">> }
UrlTailPieces ==
    { <<")">>,
      <<"]">>,
      <<"}">>,
      <<".">>,
      <<",">>,
      <<"[", "1", "]">>,
      <<"[", "1", "2", "]">>,
      <<" ">>,
      <<"\n">> }
UrlInputs ==
    {NONE, <<>>} \cup
    {l \o h \o tl : l \in UrlLeads, h \in UrlHeads, tl \in Concats(UrlTailPieces, MaxTail)}

\* the main variables, at rest under the pure-function specifications
MainIdle ==
    /\ status = [s \in Sources |-> "active"]
    /\ perplexity_client = FALSE
    /\ firecrawl_app = FALSE
    /\ seed = 0
    /\ now = 0
    /\ web = [s \in Sources |-> [markdown |-> FetchError, detail |-> FetchError,
                                 ai |-> FetchError, html |-> FetchError]]
    /\ store = {}
    /\ handler = "none"
    /\ result = <<>>
    /\ trace = <<>>
    /\ prevStore = {}
    /\ fresh = FALSE
    /\ repeat = FALSE
    /\ alerted = NotCalled
    /\ runs = 0
    /\ RunsIdle

InitUrl ==
    /\ MainIdle
    /\ fn = "clean_extracted_url"
    /\ arg \in UrlInputs
    /\ ret = PENDING

ApplyClean ==
    /\ fn = "clean_extracted_url"
    /\ ret = PENDING
    /\ ret' = clean_extracted_url(arg)
    /\ UNCHANGED <<fn, arg, mvars, rvars>>

NextUrl == ApplyClean

SpecUrl == InitUrl /\ [][NextUrl]_vars

TitlePieces ==
    { <<"S", "T", "E", "M", " ", "G", "r", "a", "n", "t">>,
      <<"B", "u", "d", "g", "e", "t">>,
      <<"f", "u", "n", "d", "i", "n", "g">>,
      <<" ", "o", "p", "p", "o", "r", "t", "u", "n", "i", "t", "y">>,
      <<"r", "e", "q", "u", "e", "s", "t", " ", "f", "o", "r">>,
      <<" ", "x">> }
CandidateUrlBase == <<"h", "t", "t", "p", ":", "/", "/", "x", ".", "g", "o", "v", "/">>
UrlPathPieces ==
    { <<"a", "p", "p", "l", "y">>,
      <<"a", "r", "c", "h", "i", "v", "e", "/">>,
      <<".", "P", "D", "F">>,
      <<"o", "p", "p", "o", "r", "t", "u", "n", "i", "t", "y">>,
      <<"a">> }
AmountTexts == { NONE, <<"T", "B", "D">>, <<"$", "5">> }
DeadlineTexts == { NONE, <<"M", "a", "y", " ", "1">> }

QualityInputs ==
    [title : Concats(TitlePieces, MaxTitlePieces),
     url : {CandidateUrlBase \o q : q \in Concats(UrlPathPieces, MaxUrlPieces)},
     amount : AmountTexts,
     deadline : DeadlineTexts]

InitQuality ==
    /\ MainIdle
    /\ fn = "is_high_quality_opportunity"
    /\ arg \in QualityInputs
    /\ ret = PENDING

ApplyQuality ==
    /\ fn = "is_high_quality_opportunity"
    /\ ret = PENDING
    /\ ret' = PyBool(is_high_quality_opportunity(arg.title, arg.url, arg.amount, arg.deadline))
    /\ UNCHANGED <<fn, arg, mvars, rvars>>

NextQuality == ApplyQuality

SpecQuality == InitQuality /\ [][NextQuality]_vars

\* extract_dollar_amount: a text is lead, number, gap, suffix
NotReturned == [kind |-> "pending"]

MaxLeadPieces == 2    \* pieces concatenated in front of the sampled number

AmountLeadPieces ==
    { <<"$">>,
      <<"g", "r", "a", "n", "t", " ", "o", "f", " ">>,
      <<"T", "B", "D">>,
      <<"D", "e", "p", "t", ".", " ", "o", "f", " ", "E", "d", " ">>,
      <<" ">> }
AmountNumbers ==
    { <<>>,
      <<"1", ".", "5">>,
      <<"2", "5", "0">>,
      <<"1", ",", "0", "0", "0">>,
      <<".", "5">>,
      <<"5", ".">>,
      <<".">>,
      <<"1", ".", "2", ".", "3">> }
AmountGaps == { <<>>, <<" ">> }
AmountSuffixes == { <<>>, <<"K">>, <<"M">>, <<"k">>, <<"m">>, <<"x">> }
AmountInputs ==
    {NONE, <<>>, <<"$", "1", "B">>, <<"2", " ", "b">>} \cup
    {l \o n \o g \o s : l \in Concats(AmountLeadPieces, MaxLeadPieces),
                        n \in AmountNumbers, g \in AmountGaps, s \in AmountSuffixes}

InitAmount ==
    /\ MainIdle
    /\ fn = "extract_dollar_amount"
    /\ arg \in AmountInputs
    /\ ret = NotReturned

ApplyAmount ==
    /\ fn = "extract_dollar_amount"
    /\ ret = NotReturned
    /\ ret' = extract_dollar_amount(arg)
    /\ UNCHANGED <<fn, arg, mvars, rvars>>

NextAmount == ApplyAmount

SpecAmount == InitAmount /\ [][NextAmount]_vars

\* parse_perplexity_response: the response is a JSON list of sampled records
\* (alone or behind four records that pass every test) or is not a list
MaxGrants == 2        \* records of a sampled list, not counting the four in front

gApply == Grant(tGood, <<"$", "5">>, NONE, <<"h", "t", "t", "p", "s", ":", "/", "/", "x", ".", "g", "o", "v", "/", "a", "p", "p", "l", "y">>)
gNsf == Grant(tNsf, NONE, <<"M", "a", "y", " ", "1">>, <<" ", "h", "t", "t", "p", "s", ":", "/", "/", "x", ".", "g", "o", "v", "/", "n", "s", "f", "/", "a", "p", "p", "l", "y", ")", ".", " ">>)
gShort == Grant(<<"S", "T", "E", "M">>, NONE, NONE, uGrants)
gNoUrl == Grant(tGood, NONE, NONE, NONE)
gArchive == Grant(tGood, NONE, NONE, uArchive)
gBudget == Grant(tDeny, NONE, NONE, uGrants)
GrantSamples == {gApply, gNsf, gShort, gNoUrl, gArchive, gBudget}

RECURSIVE GrantLists(_)
GrantLists(n) ==
    IF n = 0 THEN {<<>>}
    ELSE LET shorter == GrantLists(n - 1)
         IN  shorter \cup {Append(s, g) : s \in shorter, g \in GrantSamples}

MinedText ==
    { [titles |-> <<>>, urls |-> <<>>],
      [titles |-> <<[title |-> tGood, amount |-> AmountTBD]>>, urls |-> <<uGrants>>] }

ParseInputs ==
    { [kind |-> "text", json |-> j, grants |-> IF j = "list" THEN front \o gs ELSE <<>>,
       titles |-> tx.titles, urls |-> tx.urls] :
        j \in {"list", "other", "invalid"},
        front \in {<<>>, <<gApply, gNsf, gNsf, gApply>>},
        gs \in GrantLists(MaxGrants),
        tx \in MinedText }

InitParse ==
    /\ MainIdle
    /\ fn = "parse_perplexity_response"
    /\ arg \in ParseInputs
    /\ ret = NotReturned

ApplyParse ==
    /\ fn = "parse_perplexity_response"
    /\ ret = NotReturned
    /\ ret' = [kind |-> "list",
               opportunities |-> parse_perplexity_response(arg, "TX", seed, now),
               fallback |-> UsesFallback(arg)]
    /\ UNCHANGED <<fn, arg, mvars, rvars>>

NextParse == ApplyParse

SpecParse == InitParse /\ [][NextParse]_vars

\* enhance_opportunity_with_firecrawl over a batch, as its callers apply it:
\* the candidates are what the extractors build, the detail page fails, is
\* empty or is mined
MaxBatch == 2         \* candidates of a sampled batch

EnhanceSamples ==
    scrape_opportunities("TX", "active", Page("TX", <<lAbs, lDeny>>), 0)
        \o extract_opportunities_from_content(Markdown(<<Mention(tGood, uGrants)>>), "TX", 0, 0)
        \o extract_opportunities_from_content(Markdown(<<Mention(tGood, uGrants)>>),
                                              "NSF_DRK12", 0, 0)

RECURSIVE Batches(_)
Batches(n) ==
    IF n = 0 THEN {<<>>}
    ELSE LET shorter == Batches(n - 1)
         IN  shorter \cup {Append(s, EnhanceSamples[i]) :
                              s \in shorter, i \in DOMAIN EnhanceSamples}

DetailPages ==
    { FetchError,
      [kind |-> "empty"],
      DetailPage,
      [DetailPage EXCEPT !.eligibility = ABSENT, !.math = TRUE],
      [DetailPage EXCEPT !.description = ABSENT, !.deadlines = <<CheckWebsite>>] }

EnhanceInputs == [batch : Batches(MaxBatch), detail : DetailPages, fc : BOOLEAN]

InitEnhance ==
    /\ MainIdle
    /\ fn = "enhance_opportunity_with_firecrawl"
    /\ arg \in EnhanceInputs
    /\ ret = NotReturned

ApplyEnhance ==
    /\ fn = "enhance_opportunity_with_firecrawl"
    /\ ret = NotReturned
    /\ ret' = [kind |-> "list", opportunities |-> EnhanceAll(arg.batch, arg.detail, arg.fc)]
    /\ UNCHANGED <<fn, arg, mvars, rvars>>

NextEnhance == ApplyEnhance

SpecEnhance == InitEnhance /\ [][NextEnhance]_vars

-----------------------------------------------------------------------------
(* The structural extractor on its own: scrape_opportunities applied to    *)
(* one fetched page of Texas (specification SpecScrape)                    *)

MaxLinks == 2
MaxPageLinks == 52

sSame == Link(<<"M", "a", "t", "h", " ", "F", "u", "n", "d", "i", "n", "g">>, <<"h", "t", "t", "p", "s", ":", "/", "/", "t", "e", "a", ".", "t", "e", "x", "a", "s", ".", "g", "o", "v", "/", "g", "r", "a", "n", "t", "s">>)
sFrag == Link(<<"S", "c", "i", "e", "n", "c", "e", " ", "A", "w", "a", "r", "d", "s">>, <<"#", "t", "o", "p">>)
sJs == Link(<<"T", "e", "a", "c", "h", "e", "r", " ", "G", "r", "a", "n", "t">>, <<"j", "a", "v", "a", "s", "c", "r", "i", "p", "t", ":", "v", "o", "i", "d", "(", "0", ")">>)
sDup == Link(<<"S", "T", "E", "M", " ", "A", "w", "a", "r", "d">>, <<"/", "g", "r", "a", "n", "t", "s">>)
sLater == Link(<<"S", "t", "u", "d", "e", "n", "t", " ", "G", "r", "a", "n", "t", "s">>, <<"/", "l", "a", "t", "e", "r">>)

\* the links a selector may match on a small page
LinkSamples == <<lRel, sSame, sFrag, sJs, sDup, lNav>>

RECURSIVE LinkLists(_)
LinkLists(n) ==
    IF n = 0 THEN {<<>>}
    ELSE LET shorter == LinkLists(n - 1)
         IN  shorter \cup {Append(s, LinkSamples[i]) :
                              s \in shorter, i \in DOMAIN LinkSamples}

\* the i-th link of a long page: a grant link from position firstRelated on,
\* a menu entry before it
NumberedLink(i, firstRelated) ==
    Link((IF i >= firstRelated THEN tGood \o <<" ">>
          ELSE <<"M", "e", "n", "u", " ", "i", "t", "e", "m", " ">>) \o NatToChars(i),
         <<"/", "p">> \o NatToChars(i))

\* a fetched page of Texas by what its first two selectors match and the
\* selectors on which soup.select raises
PageOf(first, second, raises) ==
    [kind |-> "page",
     sel |-> [s \in {STATE_CONFIGS["TX"].selectors[i] :
                        i \in 1..Len(STATE_CONFIGS["TX"].selectors)} |->
                 IF s = STATE_CONFIGS["TX"].selectors[1] THEN first
                 ELSE IF s = STATE_CONFIGS["TX"].selectors[2] THEN second
                 ELSE <<>>],
     raises |-> raises]

SmallPages ==
    {PageOf(first, second, raises) :
        first \in LinkLists(MaxLinks),
        second \in {<<>>, <<sLater>>},
        raises \in SUBSET {STATE_CONFIGS["TX"].selectors[1],
                           STATE_CONFIGS["TX"].selectors[2]}}

LongPages ==
    {PageOf([i \in 1..n |-> NumberedLink(i, firstRelated)], <<>>, {}) :
        n \in {MaxCandidates + 1, MaxRawLinks + 1, MaxPageLinks},
        firstRelated \in {1, MaxRawLinks - MaxCandidates, MaxRawLinks, MaxRawLinks + 1}}

ScrapeInputs == SmallPages \cup LongPages

InitScrape ==
    /\ MainIdle
    /\ fn = "scrape_opportunities"
    /\ arg \in ScrapeInputs
    /\ ret = NotReturned

ApplyScrape ==
    /\ fn = "scrape_opportunities"
    /\ ret = NotReturned
    /\ ret' = [kind |-> "list",
               opportunities |-> scrape_opportunities("TX", status["TX"], arg, now)]
    /\ UNCHANGED <<fn, arg, mvars, rvars>>

NextScrape == ApplyScrape

SpecScrape == InitScrape /\ [][NextScrape]_vars

-----------------------------------------------------------------------------
(* The text-mining extractor with its fallback path: parse_perplexity_     *)
(* response applied to one AI response under one hash salt (specification  *)
(* SpecMine)                                                               *)

MaxTitles == 4
MaxUrls == 2

uApply == <<"h", "t", "t", "p", "s", ":", "/", "/", "x", ".", "g", "o", "v", "/", "a", "p", "p", "l", "y">>
uJunk == <<"h", "t", "t", "p", ":", "/", "/", "x", ")">>

\* the first n titles mined from a response, all different
MinedTitles(n) ==
    [i \in 1..n |->
        [title |-> <<"S", "T", "E", "M", " ", "G", "r", "a", "n", "t", " ", "P", "r", "o", "g", "r", "a", "m", " ">>
                      \o NatToChars(i),
         amount |-> AmountTBD]]

\* the raw URL matches of a response
RawUrls == Concats({<<uGrants>>, <<uDirty>>, <<uApply>>, <<uJunk>>}, MaxUrls)

\* a response that is not a string
NotText == [kind |-> "object"]

MineInputs ==
    { [response |-> [kind |-> "text", json |-> j,
                     grants |-> IF j = "list" THEN gs ELSE <<>>,
                     titles |-> MinedTitles(n), urls |-> raw],
       salt |-> salt] :
        j \in {"list", "other", "invalid"},
        gs \in {<<>>, <<gApply>>, <<NotARecord>>, <<NotARecord, gApply>>},
        n \in 0..MaxTitles,
        raw \in RawUrls,
        salt \in 0..MaxSeed }
    \cup { [response |-> NotText, salt |-> salt] : salt \in 0..MaxSeed }

InitMine ==
    /\ MainIdle
    /\ fn = "fallback_text_parsing"
    /\ arg \in MineInputs
    /\ ret = NotReturned

ApplyMine ==
    /\ fn = "fallback_text_parsing"
    /\ ret = NotReturned
    /\ ret' = [kind |-> "list",
               opportunities |-> parse_perplexity_response(arg.response, "TX", arg.salt, now),
               fallback |-> UsesFallback(arg.response)]
    /\ UNCHANGED <<fn, arg, mvars, rvars>>

NextMine == ApplyMine

SpecMine == InitMine /\ [][NextMine]_vars

-----------------------------------------------------------------------------
(* Properties of the store and of the strategy chain (specification Spec)   *)

Strategies ==
    {"firecrawl_crawl_source", "discover_opportunities_with_perplexity",
     "scrape_opportunities"}

RowIds(rows) == {r.id : r \in rows}

\* the ids of the candidates the strategies produced in the last handler
ProducedIds ==
    UNION {{trace[i].out[k] : k \in DOMAIN trace[i].out} :
              i \in {j \in DOMAIN trace : trace[j].fn \in Strategies}}

\* C1: a discovery run (check_all_states) repeated in the same date bucket
\* over unchanged upstream content returns an empty batch of new
\* opportunities and leaves the store as the first run left it, whichever
\* strategy produced the candidates.
C1_RepeatedRunAddsNothing ==
    (handler = "check_all_states" /\ repeat) => (result = <<>> /\ store = prevStore)

\* C2: after any sequence of discovery runs and verified-opportunity
\* populations no two stored opportunities have the same identity key.
C2_IdentityKeyUnique ==
    \A r \in store : \A q \in store : r.id = q.id => r = q

\* a run met a candidate whose key was stored before, next to other rows
C2_Witness ==
    /\ handler = "check_all_states"
    /\ ProducedIds \cap RowIds(prevStore) # {}
    /\ Cardinality(store) >= 2

\* C3: a stored opportunity is left as it is by a later handler run, also
\* when that run produces a candidate with the same identity key and other
\* values: its title, url, amount, deadline and found_date are unchanged.
C3_StoredRecordUnchanged ==
    \A r \in prevStore : \E q \in store :
        /\ q.id = r.id
        /\ q.title = r.title
        /\ q.url = r.url
        /\ q.amount = r.amount
        /\ q.deadline = r.deadline
        /\ q.found_date = r.found_date

\* a run whose structural candidate has the key of a stored row and another
\* url or another timestamp
C3_Witness ==
    /\ handler = "check_all_states"
    /\ \E r \in prevStore :
          /\ r.id \in ProducedIds
          /\ r \in store
          /\ \E c \in {scrape_opportunities("TX", status["TX"], web["TX"].html, now)[k] :
                         k \in DOMAIN scrape_opportunities("TX", status["TX"],
                                                           web["TX"].html, now)} :
                /\ c.id = r.id
                /\ c.url # r.url
                /\ c.found_date # r.found_date

\* C4: the identity key depends only on (source, title, date bucket): the
\* same opportunity, whichever strategy produced it, has one key and is
\* stored at most once.
C4_OneKeyPerOpportunity ==
    \A r \in store : \A q \in store :
        (/\ r.state = q.state
         /\ r.title = q.title
         /\ DateBucket(r.found_date) = DateBucket(q.found_date)) => r.id = q.id

\* C5: for an active source the order is official crawl, AI discovery,
\* structural extraction: an official crawl without candidates is followed
\* by AI discovery, and the structural extractor runs only after AI
\* discovery returned nothing (both services being configured).
C5_OfficialThenAiThenStructural ==
    (perplexity_client /\ firecrawl_app) =>
        \A i \in DOMAIN trace :
            /\ (trace[i].fn = "firecrawl_crawl_source" /\ trace[i].out = <<>>) =>
                  \E j \in (i + 1)..Len(trace) :
                      /\ trace[j].fn = "discover_opportunities_with_perplexity"
                      /\ trace[j].src = trace[i].src
            /\ trace[i].fn = "scrape_opportunities" =>
                  \E j \in 1..(i - 1) :
                      /\ trace[j].fn = "discover_opportunities_with_perplexity"
                      /\ trace[j].src = trace[i].src
                      /\ trace[j].out = <<>>

\* C6: the chain of a source is terminal on first success: after a strategy
\* returned at least one candidate no other strategy is invoked for that
\* source in the pass, and every enclosing function returns that batch.
C6_TerminalOnFirstSuccess ==
    \A i \in DOMAIN trace :
        (trace[i].fn \in Strategies /\ trace[i].out # <<>>) =>
            \A j \in (i + 1)..Len(trace) :
                trace[j].src = trace[i].src =>
                    /\ trace[j].fn \notin Strategies
                    /\ trace[j].out = trace[i].out

\* the official crawl of the first source succeeded in a run, and the
\* structural extractor, which had links to find, was not invoked for it
C6_Witness ==
    /\ handler = "check_all_states"
    /\ web["TX"].html.kind = "page"
    /\ \E i \in DOMAIN trace :
          /\ trace[i].fn = "firecrawl_crawl_source"
          /\ trace[i].src = "TX"
          /\ trace[i].out # <<>>
    /\ \A i \in DOMAIN trace :
          trace[i].src = "TX" => trace[i].fn # "scrape_opportunities"
    /\ \E r \in store : r.id \in ProducedIds /\ r.state = "Texas"

\* C7: a source whose status is blocked or inactive emits no candidate,
\* through whichever function of the orchestrator it is processed.
C7_BlockedOrInactiveEmitsNothing ==
    \A i \in DOMAIN trace :
        status[trace[i].src] \in {"blocked", "inactive"} => trace[i].out = <<>>

\* what every result of the URL Sanitizer other than "" satisfies
SanitizerOutput(u) ==
    /\ strip(u) = u
    /\ StartsWith(u, <<"h", "t", "t", "p">>)
    /\ Len(u) > MinUrlLen
    /\ MatchesDomainTld(u)

\* C8: every candidate of the batch a discovery run returns has a url the
\* URL Sanitizer can have returned and is accepted by the Quality Filter,
\* whichever strategy or parsing path produced it.
C8_BatchSanitizedAndFiltered ==
    handler = "check_all_states" =>
        \A k \in DOMAIN result :
            /\ SanitizerOutput(result[k].url)
            /\ is_high_quality_opportunity(result[k].title, result[k].url,
                                           result[k].amount, result[k].deadline)

-----------------------------------------------------------------------------
(* Properties of the pure functions (SpecQuality, SpecUrl)                 *)

HasAny(text, terms) == \E term \in terms : Contains(Lower(text), term)

\* C9: the Quality Filter accepts if and only if the title or the url holds
\* an actionable term, the title holds no denylist term and the url holds no
\* denylist path fragment, whatever the amount and the deadline are.
C9_AcceptsIff ==
    (fn = "is_high_quality_opportunity" /\ ret # PENDING) =>
        ret = PyBool(/\ HasAny(arg.title, actionable_terms)
                        \/ HasAny(arg.url, actionable_terms)
                     /\ ~HasAny(arg.title, red_flag_terms)
                     /\ ~HasAny(arg.url, url_red_flags))

\* a candidate without a concrete amount and without a deadline is accepted
C9_Witness ==
    /\ fn = "is_high_quality_opportunity"
    /\ ret = PyBool(TRUE)
    /\ arg.amount = <<"T", "B", "D">>
    /\ arg.deadline = NONE

ExampleUrl == <<"h", "t", "t", "p", "s", ":", "/", "/", "a", ".", "e", "x", "a", "m", "p", "l", "e", ".", "c", "o", "m", "/", "x", ")", "[", "1", "]", ".">>
ExampleCleaned == <<"h", "t", "t", "p", "s", ":", "/", "/", "a", ".", "e", "x", "a", "m", "p", "l", "e", ".", "c", "o", "m", "/", "x">>

\* the characters of a trailing footnote marker or of closing punctuation,
\* and the whitespace between them
ArtifactChars == ClosingPunct \cup Whitespace \cup Digits \cup {"[", "]"}

\* C10: the URL Sanitizer returns, for every input, "" or a string that
\* starts with http and holds a domain followed by a TLD of two letters or
\* more; the result is the stripped input without trailing footnote marker
\* and closing punctuation, as in the example of the specification.
C10_EmptyOrValidUrl ==
    (fn = "clean_extracted_url" /\ ret # PENDING) =>
        /\ arg \in {NONE, <<>>} => ret = <<>>
        /\ arg = ExampleUrl => ret = ExampleCleaned
        /\ \/ ret = <<>>
           \/ /\ StartsWith(ret, <<"h", "t", "t", "p">>)
              /\ \E p \in 6..(Len(ret) - 2) :
                    /\ ret[p] = "."
                    /\ ret[p - 1] \notin UrlExcluded \cup {"/", ":"}
                    /\ ret[p + 1] \in Letters
                    /\ ret[p + 2] \in Letters
              /\ StartsWith(strip(arg), ret)
              /\ \A j \in (Len(ret) + 1)..Len(strip(arg)) : strip(arg)[j] \in ArtifactChars
              /\ strip(arg)[Len(strip(arg))] \in ClosingPunct => ret # strip(arg)

\* the example of the specification has been cleaned
C10_Witness ==
    /\ fn = "clean_extracted_url"
    /\ arg = ExampleUrl
    /\ ret = ExampleCleaned

-----------------------------------------------------------------------------
(* Properties of the Amount Normalizer (specification SpecAmount)          *)

\* C11: for every input text extract_dollar_amount returns a number or None
\* and never raises; "$1.5M" gives 1500000, "grant of 250K" gives 250000 and
\* "TBD" gives None.
C11_NumberOrNoMatch ==
    (fn = "extract_dollar_amount" /\ ret # NotReturned) =>
        /\ ret.kind \in {"num", "none"}
        /\ arg = <<"$", "1", ".", "5", "M">> =>
              ret.kind = "num" /\ ret.num = 1500000 * ret.den
        /\ arg = <<"g", "r", "a", "n", "t", " ", "o", "f", " ", "2", "5", "0", "K">> =>
              ret.kind = "num" /\ ret.num = 250000 * ret.den
        /\ arg = <<"T", "B", "D">> => ret.kind = "none"

-----------------------------------------------------------------------------
(* Properties of the structured path of AI discovery (specification        *)
(* SpecParse)                                                              *)

\* a record with a title of five characters or more and a URL that the
\* sanitizer keeps and the quality filter accepts
WellFormed(grant) ==
    LET title == strip(Default(grant.title, <<>>))
        clean_url == clean_extracted_url(strip(Default(grant.url, <<>>)))
    IN  /\ Len(title) >= MinTitleLen
        /\ clean_url # <<>>
        /\ StartsWith(clean_url, <<"h", "t", "t", "p">>)
        /\ is_high_quality_opportunity(title, clean_url,
                                       strip(Default(grant.amount, AmountTBD)),
                                       strip(Default(grant.deadline, CheckWebsite)))

RecordFields(grant) ==
    [title |-> strip(Default(grant.title, <<>>)),
     amount |-> strip(Default(grant.amount, AmountTBD)),
     deadline |-> strip(Default(grant.deadline, CheckWebsite)),
     url |-> clean_extracted_url(strip(Default(grant.url, <<>>)))]

CandidateFields(opp) ==
    [title |-> opp.title, amount |-> opp.amount, deadline |-> opp.deadline, url |-> opp.url]

RecordsOf(grants) ==
    LET kept == SelectSeq(grants, WellFormed)
    IN  [i \in 1..Len(kept) |-> RecordFields(kept[i])]

CandidatesOf(opps) == [i \in 1..Len(opps) |-> CandidateFields(opps[i])]

Parsed == fn = "parse_perplexity_response" /\ ret # NotReturned

-----------------------------------------------------------------------------
(* Properties of whole discovery runs (specification Spec)                 *)

NewRows == store \ prevStore

\* C13: when the official-source crawl of a source comes back empty and the
\* AI response for it holds one record, valid but for the denylisted fragment
\* /archive/ in its URL, the run stores no opportunity for that source.
C13_ArchivedAiRecordStoresNothing ==
    (/\ handler = "check_all_states"
     /\ status["TX"] = "active"
     /\ firecrawl_app => firecrawl_crawl_source("TX", web["TX"], seed, now) = <<>>
     /\ web["TX"].ai = AiArchiveOnly)
    => \A row \in NewRows : row.state # STATE_CONFIGS["TX"].name

\* C14: a failure while one source is processed (page not fetched, selector
\* raising, crawl or enrichment failing) does not end the run: every active
\* source has its strategies called, and what they return is in the store.
C14_FailureDoesNotStopRun ==
    handler = "check_all_states" =>
        \A s \in Sources :
            status[s] = "active" =>
                /\ \E i \in DOMAIN trace : trace[i].src = s
                /\ \A i \in DOMAIN trace :
                      trace[i].src = s =>
                          \A k \in DOMAIN trace[i].out : trace[i].out[k] \in RowIds(store)

\* every strategy of the first source failed and the second source was stored
C14_Witness ==
    /\ handler = "check_all_states"
    /\ status["TX"] = "active"
    /\ web["TX"].html = FetchError
    /\ \E i \in DOMAIN trace : trace[i].src = "TX"
    /\ \A i \in DOMAIN trace : trace[i].src = "TX" => trace[i].out = <<>>
    /\ \E row \in NewRows : row.state = STATE_CONFIGS["NSF_DRK12"].name

-----------------------------------------------------------------------------
(* Properties of the threads running check_all_states (specification       *)
(* SpecRuns)                                                               *)

\* C15: when the identity lookup or the insert of a run raises, the run ends
\* with that exception: it returns no batch and send_alerts is not called.
C15_PersistenceFailureEndsRun ==
    \A t \in Triggers :
        loc[t].cause \in {"lookup", "insert"} =>
            /\ pc[t] = "raised"
            /\ loc[t].alerted = NotCalled
            /\ loc[t].unsent = {}

\* an insert failed after the run had found a new opportunity
C15_Witness ==
    \E t \in Triggers :
        /\ loc[t].cause = "insert"
        /\ loc[t].new_opportunities # <<>>
        /\ pc[t] = "raised"

\* C16: when the sender fails for a recipient the run still returns its
\* batch of new opportunities, and the rows it stored are in the table.
C16_SenderFailureNotPropagated ==
    \A t \in Triggers :
        loc[t].unsent # {} =>
            /\ pc[t] = "returned"
            /\ loc[t].cause = "none"
            /\ loc[t].alerted = [called |-> TRUE, batch |-> loc[t].new_opportunities]
            /\ \A k \in DOMAIN loc[t].new_opportunities :
                  Row(loc[t].new_opportunities[k]) \in store

\* the sender failed for every subscriber of a run that stored two rows
C16_Witness ==
    \E t \in Triggers :
        /\ loc[t].unsent = Subscribers
        /\ Len(loc[t].new_opportunities) >= 2
        /\ pc[t] = "returned"

\* C17: at most one thread is inside check_all_states at any time.
C17_OneRunAtATime ==
    \A t1 \in Triggers, t2 \in Triggers :
        (Running(t1) /\ Running(t2)) => t1 = t2

-----------------------------------------------------------------------------
(* Properties of enrichment (specifications SpecEnhance and Spec)          *)

Enhanced == fn = "enhance_opportunity_with_firecrawl" /\ ret # NotReturned

\* C18: when Firecrawl is absent, the fetch of the detail page raises or
\* its result is empty, every candidate of the batch is returned with every
\* field as it was, and none is dropped.
C18_FailedEnrichmentChangesNothing ==
    (Enhanced /\ (~arg.fc \/ arg.detail.kind \in {"error", "empty"})) =>
        ret.opportunities = arg.batch

\* the fetch raised for a batch of two candidates
C18_Witness ==
    /\ Enhanced
    /\ arg.fc
    /\ arg.detail = FetchError
    /\ Len(arg.batch) = 2
    /\ ret.opportunities = arg.batch

\* the source profile a candidate comes from
ProfileOf(opp) == CHOOSE s \in Sources : STATE_CONFIGS[s].name = opp.state

\* C19: every candidate of the batch of a run carries the reliability class
\* and the baseline score of the origin class of its source (federal: high,
\* 8.0; state: high, 7.0; other: medium, 6.0), whichever strategy found it;
\* the score is above the baseline only when eligibility and description were
\* both mined, and lies in [0, 10].
C19_ScoredFromOriginClass ==
    handler = "check_all_states" =>
        \A k \in DOMAIN result :
            /\ result[k].source_reliability =
                  BaselineReliability(STATE_CONFIGS[ProfileOf(result[k])].source_type)
            /\ result[k].quality_score \in
                  {BaselineScore(STATE_CONFIGS[ProfileOf(result[k])].source_type),
                   Min(MaxScore, BaselineScore(STATE_CONFIGS[ProfileOf(result[k])].source_type)
                                   + ScoreBoost)}
            /\ result[k].quality_score >
                  BaselineScore(STATE_CONFIGS[ProfileOf(result[k])].source_type) =>
                  result[k].eligibility # ABSENT /\ result[k].description # ABSENT
            /\ result[k].quality_score \in 0..MaxScore

-----------------------------------------------------------------------------
(* Properties of the batch a run returns (specification Spec)              *)

\* C20: the batch a run returns is exactly what the run inserted: every
\* returned opportunity had no row under its id before the run and has its
\* row afterwards, every inserted row is in the batch once, and send_alerts
\* is called, with this batch, if and only if the batch is not empty.
C20_BatchIsWhatWasInserted ==
    handler = "check_all_states" =>
        /\ \A k \in DOMAIN result :
              /\ ~Exists(prevStore, result[k].id)
              /\ Row(result[k]) \in store
        /\ \A row \in NewRows : \E k \in DOMAIN result : result[k].id = row.id
        /\ Len(result) = Cardinality(NewRows)
        /\ prevStore \subseteq store
        /\ alerted.called <=> result # <<>>
        /\ alerted.called => alerted.batch = result

\* a run found one candidate already stored and inserted another one
C20_Witness ==
    /\ handler = "check_all_states"
    /\ result # <<>>
    /\ alerted.called
    /\ \E i \in DOMAIN trace :
          \E k \in DOMAIN trace[i].out : Exists(prevStore, trace[i].out[k])

-----------------------------------------------------------------------------
(* Properties of the structural extractor (specification SpecScrape)       *)

Scraped == fn = "scrape_opportunities" /\ ret.kind = "list"

\* the positions of the selectors that do not raise and match something
Matching(page) ==
    {i \in DOMAIN STATE_CONFIGS["TX"].selectors :
        /\ STATE_CONFIGS["TX"].selectors[i] \notin page.raises
        /\ page.sel[STATE_CONFIGS["TX"].selectors[i]] # <<>>}

\* the page as it would be if only the i-th selector matched
OnlySelector(page, i) ==
    [page EXCEPT !.sel = [s \in DOMAIN page.sel |->
                             IF s = STATE_CONFIGS["TX"].selectors[i] THEN page.sel[s]
                             ELSE <<>>],
                 !.raises = {}]

\* C21: the structural extractor uses exactly the match set of the first
\* selector, in the configured order, that does not raise and matches
\* something: its output is the output for that match set alone, every
\* candidate comes from a link of that set, and it is empty when no selector
\* matches.
C21_WinnerTakeAll ==
    Scraped =>
        IF Matching(arg) = {} THEN ret.opportunities = <<>>
        ELSE \E w \in Matching(arg) :
                /\ \A j \in Matching(arg) : w <= j
                /\ ret.opportunities =
                       scrape_opportunities("TX", "active", OnlySelector(arg, w), now)
                /\ \A k \in DOMAIN ret.opportunities :
                       \E n \in DOMAIN arg.sel[STATE_CONFIGS["TX"].selectors[w]] :
                           ret.opportunities[k].title =
                               Prefix(arg.sel[STATE_CONFIGS["TX"].selectors[w]][n].text,
                                      MaxTitleLen)

\* two selectors match, the first one wins and yields a candidate
C21_Witness ==
    /\ Scraped
    /\ Matching(arg) = {1, 2}
    /\ ret.opportunities # <<>>

\* the first selector raises and the second one provides the links
C21_WitnessRaised ==
    /\ Scraped
    /\ STATE_CONFIGS["TX"].selectors[1] \in arg.raises
    /\ arg.sel[STATE_CONFIGS["TX"].selectors[1]] # <<>>
    /\ Matching(arg) = {2}
    /\ ret.opportunities # <<>>

\* the links the extractor works on: the match set of the winning selector
UsedLinks(page) == FirstMatching(STATE_CONFIGS["TX"].selectors, page)

\* the position at which a link with this text is first seen
FirstSeen(links, text) ==
    CHOOSE n \in DOMAIN links :
        /\ Prefix(links[n].text, MaxTitleLen) = text
        /\ \A m \in DOMAIN links : Prefix(links[m].text, MaxTitleLen) = text => n <= m

InFirstSeenOrder(opportunities, links) ==
    \A i, j \in DOMAIN opportunities :
        i < j => FirstSeen(links, opportunities[i].title)
                     < FirstSeen(links, opportunities[j].title)

\* C22: the output of the structural extractor holds no two candidates with
\* the same target URL (the link resolved against the canonical URL of the
\* source), and the candidates appear in the first-seen order of their links.
C22_DistinctTargetsInOrder ==
    Scraped =>
        /\ \A i, j \in DOMAIN ret.opportunities :
               i # j => ret.opportunities[i].url # ret.opportunities[j].url
        /\ InFirstSeenOrder(ret.opportunities, UsedLinks(arg))

\* the part of C22 the code keeps: candidates follow the order of their links
C22_OrderOnly == Scraped => InFirstSeenOrder(ret.opportunities, UsedLinks(arg))

\* a relative and an absolute link to one target both became candidates
C22_SameTargetTwice ==
    /\ Scraped
    /\ UsedLinks(arg) = <<lRel, sSame>>
    /\ Len(ret.opportunities) = 2
    /\ ret.opportunities[1].url = ret.opportunities[2].url

\* the links a candidate may come from: those of the winning selector that
\* carry its title
LinksOf(opportunity, links) ==
    {n \in DOMAIN links : Prefix(links[n].text, MaxTitleLen) = opportunity.title}

\* C23: the structural extractor emits no candidate for a link whose href
\* starts with "#" (fragment only) or with "javascript:" (script pseudo-URL).
C23_NoFragmentOrScriptLink ==
    Scraped =>
        \A k \in DOMAIN ret.opportunities :
            \A n \in LinksOf(ret.opportunities[k], UsedLinks(arg)) :
                /\ ~StartsWith(UsedLinks(arg)[n].href, <<"#">>)
                /\ ~StartsWith(UsedLinks(arg)[n].href,
                               <<"j", "a", "v", "a", "s", "c", "r", "i", "p", "t", ":">>)

\* the part of C23 the code keeps: no candidate for a script pseudo-URL
C23_ScriptOnly ==
    Scraped =>
        \A k \in DOMAIN ret.opportunities :
            \A n \in LinksOf(ret.opportunities[k], UsedLinks(arg)) :
                ~StartsWith(UsedLinks(arg)[n].href,
                            <<"j", "a", "v", "a", "s", "c", "r", "i", "p", "t", ":">>)

\* a fragment-only link became a candidate whose URL is the canonical URL
\* followed by the fragment
C23_FragmentEmitted ==
    /\ Scraped
    /\ UsedLinks(arg) = <<sFrag>>
    /\ Len(ret.opportunities) = 1
    /\ ret.opportunities[1].url = STATE_CONFIGS["TX"].url \o sFrag.href

\* C24: whatever the size of the page, the structural extractor emits at
\* most 20 candidates, and each of them comes from one of the first 50
\* deduplicated links.
C24_BoundedAtBothStages ==
    Scraped =>
        /\ Len(ret.opportunities) <= MaxCandidates
        /\ \A k \in DOMAIN ret.opportunities :
               \E n \in DOMAIN Prefix(UniqueByHref(UsedLinks(arg), {}), MaxRawLinks) :
                   Prefix(UniqueByHref(UsedLinks(arg), {})[n].text, MaxTitleLen)
                       = ret.opportunities[k].title

\* a page with more than 50 links, more than 20 of them grant related among
\* the first 50: exactly 20 candidates
C24_Witness ==
    /\ Scraped
    /\ Len(UniqueByHref(UsedLinks(arg), {})) > MaxRawLinks
    /\ Len(SelectSeq(Prefix(UniqueByHref(UsedLinks(arg), {}), MaxRawLinks),
                     IsGrantRelated)) > MaxCandidates
    /\ Len(ret.opportunities) = MaxCandidates

\* a page whose only grant-related links come after the 50th: no candidate
C24_WitnessLate ==
    /\ Scraped
    /\ Len(UniqueByHref(UsedLinks(arg), {})) > MaxRawLinks
    /\ IsGrantRelated(UniqueByHref(UsedLinks(arg), {})[MaxRawLinks + 1])
    /\ ret.opportunities = <<>>

-----------------------------------------------------------------------------
(* Properties of the text-mining extractor (specification SpecMine)        *)

Mined == fn = "fallback_text_parsing" /\ ret.kind = "list"

\* the response went down the fallback path with its titles and URL matches
MinedByFallback == Mined /\ arg.response.kind = "text" /\ ret.fallback

\* the URL list of the fallback path: what extract_urls_from_text returns
SurvivingUrls == extract_urls_from_text(arg.response, arg.salt)

\* the candidates are the titles, in order, the i-th one with the i-th URL
\* and those beyond the last URL with the first URL; none without a URL
PairedByPosition(opportunities, titles, urls) ==
    /\ Len(opportunities) = IF urls = <<>> THEN 0 ELSE Len(titles)
    /\ \A i \in DOMAIN opportunities :
           /\ opportunities[i].title = titles[i].title
           /\ opportunities[i].url = IF i <= Len(urls) THEN urls[i] ELSE urls[1]
           /\ opportunities[i].url # <<>>

\* C25 as stated: in the fallback path every surviving title is paired by
\* position with the surviving URLs, extra titles reuse the first URL, and
\* without any URL every title is dropped.
C25_EveryTitlePaired ==
    MinedByFallback =>
        PairedByPosition(ret.opportunities, arg.response.titles, SurvivingUrls)

\* C25: in the fallback path the first three surviving titles are paired by
\* position with the surviving URLs: the i-th title gets the i-th URL, a
\* title beyond the last URL gets the first URL, and without any URL every
\* title is dropped, so that no candidate has an empty URL.
C25_FirstThreePaired ==
    MinedByFallback =>
        PairedByPosition(ret.opportunities,
                         Prefix(arg.response.titles, MaxFallback), SurvivingUrls)

\* three titles and two different URLs: the third title reuses the first URL
C25_Witness ==
    /\ MinedByFallback
    /\ Len(arg.response.titles) = MaxFallback
    /\ Len(SurvivingUrls) = 2
    /\ Len(ret.opportunities) = MaxFallback
    /\ ret.opportunities[2].url = SurvivingUrls[2]
    /\ ret.opportunities[3].url = SurvivingUrls[1]
    /\ SurvivingUrls[1] # SurvivingUrls[2]

\* titles were mined but no URL survived: nothing is produced
C25_WitnessNoUrl ==
    /\ MinedByFallback
    /\ arg.response.titles # <<>>
    /\ arg.response.urls # <<>>
    /\ SurvivingUrls = <<>>
    /\ ret.opportunities = <<>>

\* the response fails the structured parse: it is not a string, json.loads
\* raises, the parsed value is not a list, or an entry of the list is not a
\* record
Malformed(response) ==
    \/ response.kind # "text"
    \/ response.json # "list"
    \/ \E i \in DOMAIN response.grants : response.grants[i] = NotARecord

\* C26: a malformed AI response is handed to the fallback text-mining path:
\* the batch returned is the one the fallback path mines from that response
\* (the empty batch when the fallback path fails), and no error is returned.
C26_MalformedGoesToFallback ==
    (Mined /\ Malformed(arg.response)) =>
        /\ ret.fallback
        /\ ret.opportunities = fallback_text_parsing(arg.response, "TX", arg.salt, now)

\* the part of C26 the code keeps: a response that is not parsable or whose
\* parsed value is not a list goes to the fallback path, and a response on
\* which the fallback path fails gives the empty batch
C26_NotAListGoesToFallback ==
    (Mined /\ UsesFallback(arg.response)) =>
        /\ ret.opportunities = fallback_text_parsing(arg.response, "TX", arg.salt, now)
        /\ arg.response.kind # "text" => ret.opportunities = <<>>

\* a list whose only entry is not a record: nothing is returned although
\* the fallback path would mine a candidate from the response
C26_NonRecordListNotMined ==
    /\ Mined
    /\ arg.response.kind = "text"
    /\ arg.response.json = "list"
    /\ arg.response.grants = <<NotARecord>>
    /\ ~ret.fallback
    /\ ret.opportunities = <<>>
    /\ fallback_text_parsing(arg.response, "TX", arg.salt, now) # <<>>

-----------------------------------------------------------------------------
(* Properties of a discovery run: retries, overlap, source status          *)

\* the calls of one strategy for one source in the pass just made
Attempts(f, state_code) ==
    {i \in DOMAIN trace : trace[i].fn = f /\ trace[i].src = state_code}

\* C27: within one pass each strategy (official crawl, AI discovery,
\* structural extraction) is attempted at most once per source.
C27_NoRetries ==
    handler = "check_all_states" =>
        \A s \in Sources : \A f \in Strategies : Cardinality(Attempts(f, s)) <= 1

\* the structural extractor ran twice for Texas in one pass: once inside the
\* AI-powered pass and once more after it returned nothing
C27_StructuralRunTwice ==
    /\ handler = "check_all_states"
    /\ Cardinality(Attempts("scrape_opportunities", "TX")) = 2
    /\ Cardinality(Attempts("ai_powered_scrape_opportunities", "TX")) = 1

-----------------------------------------------------------------------------
(* Idempotence of the URL Sanitizer (specification SpecUrl)                *)

\* C28: cleaning a cleaned URL changes nothing: for every input s,
\* clean_extracted_url(clean_extracted_url(s)) = clean_extracted_url(s), and
\* a non-empty output does not end in whitespace or closing punctuation.
C28_Idempotent ==
    (fn = "clean_extracted_url" /\ ret # PENDING) =>
        /\ clean_extracted_url(ret) = ret
        /\ ret # <<>> => ret[Len(ret)] \notin Whitespace \cup ClosingPunct

\* an artifact followed by whitespace and a second artifact: the output still
\* ends in a closing parenthesis and a second cleaning removes it
C28_SecondPassChanges ==
    /\ fn = "clean_extracted_url"
    /\ arg = <<"h", "t", "t", "p", ":", "/", "/", "a", ".", "c", "o", ")", " ", ".">>
    /\ ret = <<"h", "t", "t", "p", ":", "/", "/", "a", ".", "c", "o", ")">>
    /\ clean_extracted_url(ret) = <<"h", "t", "t", "p", ":", "/", "/", "a", ".", "c", "o">>

\* the ids a run has reported as new: its batch once the commit went
\* through (it is returned, and mailed when not empty)
ReportedNew(t) ==
    IF pc[t] \in {"alert", "returned"} \/ loc[t].alerted.called
    THEN {loc[t].new_opportunities[i].id : i \in DOMAIN loc[t].new_opportunities}
    ELSE {}

\* C29: when the scheduled job and a manual /api/scrape request interleave
\* their lookups and inserts, no opportunity is reported as new by both
\* runs, and the table never holds two rows with one id.
C29_NoDoubleReport ==
    /\ \A t1 \in Triggers, t2 \in Triggers :
           t1 # t2 => ReportedNew(t1) \cap ReportedNew(t2) = {}
    /\ \A r1 \in store, r2 \in store : r1.id = r2.id => r1 = r2

\* both runs looked an opportunity up before either had committed it: one
\* run stored and reported it, the INSERT of the other run failed
C29_Witness ==
    \E t1 \in Triggers, t2 \in Triggers :
        /\ t1 # t2
        /\ ReportedNew(t1) # {}
        /\ loc[t1].alerted.called
        /\ pc[t2] = "raised"
        /\ loc[t2].cause = "insert"
        /\ \E i \in DOMAIN loc[t2].new_opportunities :
               /\ loc[t2].new_opportunities[i].id \in ReportedNew(t1)
               /\ Exists(store, loc[t2].new_opportunities[i].id)

\* C30: in a discovery run a source whose status is not "active"
\* (needs_verification included) has no strategy invoked and contributes no
\* stored opportunity and no notified opportunity.
C30_OnlyActiveSourcesAttempted ==
    handler = "check_all_states" =>
        \A s \in Sources :
            status[s] # "active" =>
                /\ \A i \in DOMAIN trace : trace[i].src # s
                /\ \A row \in NewRows : row.state # STATE_CONFIGS[s].name
                /\ \A k \in DOMAIN result : result[k].state # STATE_CONFIGS[s].name
                /\ \A k \in DOMAIN alerted.batch :
                       alerted.batch[k].state # STATE_CONFIGS[s].name

\* Texas needs verification and its page holds grant links: the run stored
\* and notified the opportunities of the other source only
C30_Witness ==
    /\ handler = "check_all_states"
    /\ status["TX"] = "needs_verification"
    /\ scrape_opportunities("TX", "active", web["TX"].html, now) # <<>>
    /\ NewRows # {}
    /\ alerted.called
    /\ \A i \in DOMAIN trace : trace[i].src # "TX"

====
